---- MODULE Spec2Model ----
(***************************************************************************)
(* Model of the feedback-driven learning loop of src/ml.                   *)
(*                                                                         *)
(*   - SignalFeedbackCollector (feedback_collector.py): the signals.jsonl  *)
(*     log, record_signal, update_signal_outcome, load_signals and         *)
(*     get_performance_stats.                                              *)
(*   - DataProcessor.create_sequences (data_processor.py): windows and     *)
(*     3-class labels.                                                     *)
(*   - DataProcessor.normalize_features (data_processor.py): the min-max   *)
(*     scalers, fitted and applied.                                        *)
(*   - ContinuousLearner (continuous_learner.py): calculate_sample_weights,*)
(*     evaluate_improvement, and the learning cycle of                     *)
(*     retrain_with_feedback and incremental_update.                       *)
(*                                                                         *)
(* Python's None is the empty tuple and a present value v is <<v>>, so     *)
(* that optional values of any type compare.  Floats that come out of a    *)
(* division are exact fractions [num, den] in lowest terms.                *)
(***************************************************************************)
EXTENDS Integers, Sequences, FiniteSets, TLC

VARIABLES
    exists,     \* signals.jsonl exists on disk
    file,       \* the lines of signals.jsonl, in file order
    now,        \* datetime.now(), in whole days
    ret,        \* what the last call did: operation, arguments, result
    lastWrite,  \* what the last call did to the file: none, append, rewrite
    pc,         \* per process: position inside its call (concurrent runs)
    loc,        \* per process: arguments and local variables of its call
    log0,       \* the log when the concurrent calls start
    df,         \* create_sequences: the 'close' column of df_clean
    seqArgs,    \* create_sequences: sequence_length, prediction_horizon
    seqOut,     \* create_sequences: result of the call, self.feature_columns
    scalers,    \* DataProcessor.scalers: feature index -> fitted MinMaxScaler
    normOut,    \* normalize_features: arguments and result of the last call
    feedback,   \* feedback_df: the table get_feedback_data returned
    labels,     \* y: the label of each training sample
    weightOut,  \* calculate_sample_weights: result of the call
    evalOut,    \* evaluate_improvement: result of the call
    cycle,      \* the learning cycle: its position and its local variables
    dataRows,   \* rows of the market data file
    modelFile,  \* models/<symbol>_<timeframe>_ensemble.pkl, None if absent
    metaFile,   \* the .meta.json next to the model file, None if absent
    predictor,  \* EnsemblePricePredictor: UNBUILT, BUILT or TRAINED
    artifact,   \* the blob save_models wrote, None if there is none
    predOut,    \* EnsemblePricePredictor: the last call and its result
    ens,        \* EnsemblePredictor: self.models, self.weights
    ensOut,     \* EnsemblePredictor: the last call and its result
    lstm,       \* LSTMPricePredictor: self.model, self.history; the .h5 file
    lstmOut,    \* LSTMPricePredictor: the last call and its result
    sched,      \* LearningScheduler: the last evaluate_performance run
    auto        \* auto_trainer.py: the models directory and the run in progress

vars == <<exists, file, now, ret, lastWrite, pc, loc, log0, df, seqArgs, seqOut,
          scalers, normOut, feedback, labels, weightOut, evalOut,
          cycle, dataRows, modelFile, metaFile,
          predictor, artifact, predOut, ens, ensOut, lstm, lstmOut, sched, auto>>

storeVars == <<exists, file, now, ret, lastWrite>>
procVars  == <<pc, loc, log0>>
seqVars   == <<df, seqArgs, seqOut>>
normVars  == <<scalers, normOut>>
weightVars == <<feedback, labels, weightOut>>
cycleVars == <<cycle, dataRows, modelFile, metaFile>>
predVars  == <<predictor, artifact, predOut>>
ensVars   == <<ens, ensOut>>
lstmVars  == <<lstm, lstmOut>>
trainerVars == <<sched, auto>>
opsVars   == <<predVars, ensVars, lstmVars, trainerVars>>
learnVars == <<normVars, weightVars, evalOut, cycleVars, opsVars>>

----------------------------------------------------------------------------
(* Bounds *)

MaxLog   == 2    \* record_signal calls per run
MaxClock == 1    \* the clock runs over 0 .. MaxClock
MaxRows  == 3    \* rows of the table given to create_sequences
MaxSeqLen  == 2  \* sequence_length is in 1 .. MaxSeqLen
MaxHorizon == 2  \* prediction_horizon is in 1 .. MaxHorizon
NumSamples  == 2 \* normalize_features: X.shape[0]
WindowLen   == 2 \* normalize_features: X.shape[1]
NumFeatures == 1 \* normalize_features: X.shape[2]
MaxRaw      == 2 \* normalize_features: raw feature values are in 0 .. MaxRaw
MaxTrain    == 3 \* calculate_sample_weights: at most MaxTrain samples
MaxFeedback == 2 \* calculate_sample_weights: at most MaxFeedback feedback rows
MaxRun      == 4 \* evaluate_improvement: rows in a run of equal outcomes
MaxCycleLog == 5 \* retrain_with_feedback: records in the log it reads
MaxMembers  == 3 \* members of an ensemble
MaxSchedLog == 3 \* evaluate_performance: signals in the log it reads
MaxSymbols  == 2 \* train_all: symbols in training_config.json

----------------------------------------------------------------------------
(* Values *)

None    == <<>>
Some(v) == <<v>>
Val(o)  == o[1]

Abs(a)    == IF a < 0 THEN -a ELSE a

RECURSIVE Gcd(_, _)
Gcd(a, b) == IF b = 0 THEN a ELSE Gcd(b, a % b)

\* Python's true division n / d (d > 0), as an exact fraction
Frac(n, d) ==
    LET g == Gcd(Abs(n), d)
    IN  [num |-> n \div g, den |-> d \div g]

\* f"signal_{datetime.now().timestamp()}"
GeneratedId(t) == <<"signal", t>>

SuppliedIds == { <<"test_signal", 1>> }

\* The signal dicts callers pass to record_signal.  A missing key is None.
\* The first is the test signal of main(), without its timeframe; the second
\* reuses its id and is two days old when the clock starts; the third
\* leaves id and timestamp to their defaults.
SignalInputs ==
    { [id |-> Some(<<"test_signal", 1>>), pair |-> "BTCUSDT",
       timeframe |-> None, signalType |-> Some("BUY"), timestamp |-> Some(0),
       indicators |-> None],
      [id |-> Some(<<"test_signal", 1>>), pair |-> "ETHUSDT",
       timeframe |-> Some("4h"), signalType |-> Some("SELL"),
       timestamp |-> Some(-2), indicators |-> Some("int_keys")],
      [id |-> None, pair |-> "BTCUSDT",
       timeframe |-> Some("4h"), signalType |-> Some("BUY"), timestamp |-> None,
       indicators |-> None] }

\* (outcome, exit_price, profit_loss_percent) of update_signal_outcome
OutcomeInputs ==
    { [outcome |-> "SUCCESS",     exit_price |-> 44, profit_loss |-> 2],
      [outcome |-> "FAILURE",     exit_price |-> 42, profit_loss |-> -1],
      [outcome |-> "STOPPED_OUT", exit_price |-> 42, profit_loss |-> -2],
      [outcome |-> "TOOK_PROFIT", exit_price |-> 45, profit_loss |-> 3] }

UpdateIds == SuppliedIds \cup { GeneratedId(t) : t \in 0..MaxClock }

\* (symbol, timeframe, days) of get_performance_stats: all signals; one
\* symbol; one timeframe over the last day; all three filters
StatsInputs ==
    { [symbol |-> None, timeframe |-> None, days |-> None],
      [symbol |-> Some("BTCUSDT"), timeframe |-> None, days |-> None],
      [symbol |-> None, timeframe |-> Some("4h"), days |-> Some(1)],
      [symbol |-> Some("BTCUSDT"), timeframe |-> Some("1h"), days |-> Some(1)] }

----------------------------------------------------------------------------
(* json *)

\* json.dumps of a dict value: dict keys become strings
JsonValue(v) == IF v = "int_keys" THEN "str_keys" ELSE v

\* json.dumps(record) + '\n': one line of the log
JsonDumps(r) ==
    [kind |-> "json", rec |-> [r EXCEPT !.indicators = JsonValue(@)]]

\* what is left of a line that another writer overwrote in part
Fragment == [kind |-> "fragment"]

\* json.loads(line) of a line json.loads accepts
JsonLoads(line) == line.rec

Parses(line) == line.kind = "json"

----------------------------------------------------------------------------
(* SignalFeedbackCollector *)

\* the record dict built by record_signal
NewRecord(signal, t) ==
    [signal_id   |-> IF signal.id = None THEN GeneratedId(t) ELSE Val(signal.id),
     symbol      |-> signal.pair,
     timeframe   |-> IF signal.timeframe = None THEN "1h" ELSE Val(signal.timeframe),
     signal_type |-> signal.signalType,
     timestamp   |-> IF signal.timestamp = None THEN t ELSE Val(signal.timestamp),
     indicators  |-> IF signal.indicators = None THEN "empty" ELSE Val(signal.indicators),
     status      |-> "ACTIVE",
     outcome     |-> None,
     profit_loss |-> None,
     exit_price  |-> None,
     exit_time   |-> None]

\* the file opened with 'w' instead of 'a': the line replaces the file
AppendLineModeW(f, line) == <<line>>

\* open(signals_db, 'a'); f.write(line): the line goes to the end of the file
AppendLine(f, line) == Append(f, line)

\* load_signals: the records of the file, or the error json.loads raises.
\* With days set, records older than days are left out.
LoadSignals(ex, f, days, t) ==
    IF ~ex THEN [raised |-> FALSE, signals |-> <<>>]
    ELSE IF \E i \in 1..Len(f) : ~Parses(f[i])
         THEN [raised |-> TRUE, signals |-> <<>>]
         ELSE LET all == [i \in 1..Len(f) |-> JsonLoads(f[i])]
                  Recent(s) == ~(t - s.timestamp > Val(days))
              IN  [raised |-> FALSE,
                   signals |-> IF days = None \/ Val(days) = 0
                               THEN all ELSE SelectSeq(all, Recent)]

\* index of the first record with this signal_id, 0 if there is none
FirstMatch(signals, signal_id) ==
    IF \E i \in 1..Len(signals) : signals[i].signal_id = signal_id
    THEN CHOOSE i \in 1..Len(signals) :
            /\ signals[i].signal_id = signal_id
            /\ \A j \in 1..(i - 1) : signals[j].signal_id # signal_id
    ELSE 0

\* the loop without its break: every record with the id is closed
CloseSignalNoBreak(signals, k, u, t) ==
    [i \in 1..Len(signals) |->
        IF signals[i].signal_id = signals[k].signal_id
        THEN [signals[i] EXCEPT !.status      = "CLOSED",
                                !.outcome     = Some(u.outcome),
                                !.exit_price  = Some(u.exit_price),
                                !.profit_loss = Some(u.profit_loss),
                                !.exit_time   = Some(t)]
        ELSE signals[i]]

\* the loop without 'signal['status'] = 'CLOSED''
CloseSignalKeepsStatus(signals, k, u, t) ==
    [signals EXCEPT ![k] = [@ EXCEPT !.outcome     = Some(u.outcome),
                                     !.exit_price  = Some(u.exit_price),
                                     !.profit_loss = Some(u.profit_loss),
                                     !.exit_time   = Some(t)]]

\* the loop of update_signal_outcome: close the first match, then break
CloseSignal(signals, k, u, t) ==
    [signals EXCEPT ![k] = [@ EXCEPT !.status      = "CLOSED",
                                     !.outcome     = Some(u.outcome),
                                     !.exit_price  = Some(u.exit_price),
                                     !.profit_loss = Some(u.profit_loss),
                                     !.exit_time   = Some(t)]]

\* the lines written by the rewrite of the whole file
DumpAll(signals) == [i \in 1..Len(signals) |-> JsonDumps(signals[i])]

record_signal(signal) ==
    /\ Len(file) < MaxLog
    /\ LET record == NewRecord(signal, now)
       IN  /\ file' = AppendLine(file, JsonDumps(record))
           /\ exists' = TRUE
           /\ lastWrite' = "append"
           /\ ret' = [op |-> "record_signal", raised |-> FALSE,
                      value |-> record.signal_id]
    /\ UNCHANGED <<now, procVars, seqVars, learnVars>>

\* update_signal_outcome without 'if updated': the file is always rewritten
update_signal_outcome_always_rewrites(signal_id, u) ==
    /\ LET loaded  == LoadSignals(exists, file, None, now)
           signals == loaded.signals
           k       == FirstMatch(signals, signal_id)
       IN  IF loaded.raised
           THEN /\ UNCHANGED <<exists, file>>
                /\ lastWrite' = "none"
                /\ ret' = [op |-> "update_signal_outcome", raised |-> TRUE,
                           signal_id |-> signal_id, updated |-> FALSE]
           ELSE /\ file' = DumpAll(IF k # 0 THEN CloseSignal(signals, k, u, now)
                                            ELSE signals)
                /\ exists' = TRUE
                /\ lastWrite' = "rewrite"
                /\ ret' = IF k # 0
                          THEN [op |-> "update_signal_outcome", raised |-> FALSE,
                                signal_id |-> signal_id, updated |-> TRUE, u |-> u]
                          ELSE [op |-> "update_signal_outcome", raised |-> FALSE,
                                signal_id |-> signal_id, updated |-> FALSE]
    /\ UNCHANGED <<now, procVars, seqVars, learnVars>>

update_signal_outcome(signal_id, u) ==
    /\ LET loaded  == LoadSignals(exists, file, None, now)
           signals == loaded.signals
           k       == FirstMatch(signals, signal_id)
       IN  IF loaded.raised
           THEN /\ UNCHANGED <<exists, file>>
                /\ lastWrite' = "none"
                /\ ret' = [op |-> "update_signal_outcome", raised |-> TRUE,
                           signal_id |-> signal_id, updated |-> FALSE]
           ELSE IF k # 0
           THEN /\ file' = DumpAll(CloseSignal(signals, k, u, now))
                /\ exists' = TRUE
                /\ lastWrite' = "rewrite"
                /\ ret' = [op |-> "update_signal_outcome", raised |-> FALSE,
                           signal_id |-> signal_id, updated |-> TRUE, u |-> u]
           ELSE /\ UNCHANGED <<exists, file>>
                /\ lastWrite' = "none"
                /\ ret' = [op |-> "update_signal_outcome", raised |-> FALSE,
                           signal_id |-> signal_id, updated |-> FALSE]
    /\ UNCHANGED <<now, procVars, seqVars, learnVars>>

\* sum(s['profit_loss'] for s in closed_signals if s['profit_loss'])
RECURSIVE SumProfitLoss(_)
SumProfitLoss(closed) ==
    IF closed = <<>> THEN 0
    ELSE LET pl == Head(closed).profit_loss
         IN  (IF pl = None \/ Val(pl) = 0 THEN 0 ELSE Val(pl))
             + SumProfitLoss(Tail(closed))

\* max(closed_signals, key=profit_loss): the first of the largest
BestSignal(closed) ==
    closed[CHOOSE i \in 1..Len(closed) :
              /\ \A j \in 1..Len(closed) :
                     Val(closed[j].profit_loss) <= Val(closed[i].profit_loss)
              /\ \A j \in 1..(i - 1) :
                     Val(closed[j].profit_loss) < Val(closed[i].profit_loss)]

\* min(closed_signals, key=profit_loss): the first of the smallest
WorstSignal(closed) ==
    closed[CHOOSE i \in 1..Len(closed) :
              /\ \A j \in 1..Len(closed) :
                     Val(closed[j].profit_loss) >= Val(closed[i].profit_loss)
              /\ \A j \in 1..(i - 1) :
                     Val(closed[j].profit_loss) > Val(closed[i].profit_loss)]

IsClosed(s)     == s.status = "CLOSED"
\* TOOK_PROFIT left out of the wins
IsSuccessfulOnlySuccess(s) == s.outcome = Some("SUCCESS")

IsSuccessful(s) == s.outcome \in { Some("SUCCESS"), Some("TOOK_PROFIT") }
IsFailed(s)     == s.outcome \in { Some("FAILURE"), Some("STOPPED_OUT") }

\* the symbol filter left out
FilterSignalsNoSymbol(signals, symbol, timeframe) ==
    LET ByTimeframe(s) == s.timeframe = Val(timeframe)
    IN  IF timeframe = None THEN signals ELSE SelectSeq(signals, ByTimeframe)

\* the symbol and timeframe filters of get_performance_stats
FilterSignals(signals, symbol, timeframe) ==
    LET BySymbol(s)    == s.symbol = Val(symbol)
        ByTimeframe(s) == s.timeframe = Val(timeframe)
        s1 == IF symbol = None THEN signals ELSE SelectSeq(signals, BySymbol)
    IN  IF timeframe = None THEN s1 ELSE SelectSeq(s1, ByTimeframe)

\* the dict get_performance_stats returns for the filtered signals
PerformanceStats(signals) ==
    LET closed_signals == SelectSeq(signals, IsClosed)
        successful     == SelectSeq(closed_signals, IsSuccessful)
        failed         == SelectSeq(closed_signals, IsFailed)
        total_pl       == SumProfitLoss(closed_signals)
    IN  IF closed_signals = <<>>
        THEN [total_signals   |-> Len(signals),
              closed_signals  |-> 0,
              success_rate    |-> Frac(0, 1),
              avg_profit_loss |-> Frac(0, 1),
              total_return    |-> 0]
        ELSE [total_signals   |-> Len(signals),
              active_signals  |-> Len(signals) - Len(closed_signals),
              closed_signals  |-> Len(closed_signals),
              successful      |-> Len(successful),
              failed          |-> Len(failed),
              success_rate    |-> IF closed_signals # <<>>
                                  THEN Frac(Len(successful) * 100, Len(closed_signals))
                                  ELSE Frac(0, 1),
              avg_profit_loss |-> IF closed_signals # <<>>
                                  THEN Frac(total_pl, Len(closed_signals))
                                  ELSE Frac(0, 1),
              total_return    |-> total_pl,
              best_signal     |-> IF closed_signals # <<>>
                                  THEN Some(BestSignal(closed_signals)) ELSE None,
              worst_signal    |-> IF closed_signals # <<>>
                                  THEN Some(WorstSignal(closed_signals)) ELSE None]

get_performance_stats(symbol, timeframe, days) ==
    /\ LET loaded == LoadSignals(exists, file, days, now)
       IN  ret' = IF loaded.raised
                  THEN [op |-> "get_performance_stats", raised |-> TRUE,
                        symbol |-> symbol, timeframe |-> timeframe, days |-> days]
                  ELSE [op |-> "get_performance_stats", raised |-> FALSE,
                        symbol |-> symbol, timeframe |-> timeframe, days |-> days,
                        value |-> PerformanceStats(
                                     FilterSignals(loaded.signals, symbol, timeframe))]
    /\ lastWrite' = "none"
    /\ UNCHANGED <<exists, file, now, procVars, seqVars, learnVars>>

\* time passes between calls
Tick ==
    /\ now < MaxClock
    /\ now' = now + 1
    /\ ret' = [op |-> "tick", raised |-> FALSE]
    /\ lastWrite' = "none"
    /\ UNCHANGED <<exists, file, procVars, seqVars, learnVars>>

----------------------------------------------------------------------------
(* Sequential use of the collector: one call at a time *)

IdleProcs == [p \in {1, 2} |-> "idle"]
NoLocals  == [p \in {1, 2} |-> [op |-> "none"]]
NoTable   == [columns |-> <<>>, rows |-> <<>>]
NoSeqArgs == [sequence_length |-> 0, prediction_horizon |-> 0]
\* self.feature_columns = [] until create_sequences records an ordering
NoSeqOut  == [status |-> "not_called", feature_columns |-> <<>>]
\* self.scalers = {}
NoScalers == <<>>
NoCall    == [status |-> "not_called"]

\* the learner before a cycle: no call under way, no data, no model on disk
NoCycle ==
    [pc |-> "idle", entry |-> "none", existing_model_path |-> None,
     df_recent |-> None, df |-> None, training_samples |-> None,
     feedback_df |-> None, sample_weights |-> None, train |-> None,
     steps |-> <<>>]

\* auto_trainer.py has not run, and models/ and data/ are empty.  models is
\* the set of pairs with an _ensemble.pkl file, meta gives the age in hours
\* of trained_at for the pairs with a metadata file, data is the set of
\* pairs with a .csv file.
NoRun ==
    [pc |-> "idle", mode |-> "none", symbols |-> 0, timeframes |-> 0,
     results |-> None, attempts |-> <<>>, raised |-> FALSE,
     models |-> {}, meta |-> <<>>, data |-> {}]

CycleIdle ==
    /\ cycle = NoCycle
    /\ dataRows = 0
    /\ modelFile = None
    /\ metaFile = None

\* a new EnsemblePricePredictor, and no saved blob
PredictorIdle ==
    /\ predictor = [state |-> "UNBUILT"]
    /\ artifact = None
    /\ predOut = [op |-> "init", raised |-> FALSE]

\* EnsemblePredictor(): no member, no weight
EnsembleIdle ==
    /\ ens = [models |-> <<>>, weights |-> <<>>]
    /\ ensOut = [op |-> "init", raised |-> FALSE]

\* LSTMPricePredictor(): self.model = None, self.history = None; no file yet
LstmIdle ==
    /\ lstm = [model |-> None, history |-> None, file |-> None]
    /\ lstmOut = [op |-> "init", raised |-> FALSE]

\* no scheduler job has run; the models directory is empty
TrainerIdle ==
    /\ sched = NoCall
    /\ auto = NoRun

\* the models and the trainers before any of their methods is called
OpsIdle ==
    /\ PredictorIdle
    /\ EnsembleIdle
    /\ LstmIdle
    /\ TrainerIdle

\* the processor and the learner before any of their methods is called
LearnIdle ==
    /\ scalers = NoScalers
    /\ normOut = NoCall
    /\ feedback = <<>>
    /\ labels = <<>>
    /\ weightOut = NoCall
    /\ evalOut = NoCall
    /\ OpsIdle
    /\ CycleIdle

Init ==
    /\ exists = FALSE
    /\ file = <<>>
    /\ now = 0
    /\ ret = [op |-> "init", raised |-> FALSE]
    /\ lastWrite = "none"
    /\ pc = IdleProcs
    /\ loc = NoLocals
    /\ log0 = <<>>
    /\ df = NoTable
    /\ seqArgs = NoSeqArgs
    /\ seqOut = NoSeqOut
    /\ LearnIdle

\* the calls that write the log, and the clock
Next ==
    \/ \E signal \in SignalInputs : record_signal(signal)
    \/ \E signal_id \in UpdateIds, u \in OutcomeInputs :
          update_signal_outcome(signal_id, u)
    \/ Tick

Spec == Init /\ [][Next]_vars

\* the same calls, and the statistics taken in between
NextStats ==
    \/ Next
    \/ \E q \in StatsInputs :
          get_performance_stats(q.symbol, q.timeframe, q.days)

SpecStats == Init /\ [][NextStats]_vars

----------------------------------------------------------------------------
(* DataProcessor.create_sequences *)

\* Close prices in hundredths; NaN is None.  Around 100.00 they are the
\* moves of -1.01%, -1%, +1% and +1.01%.
Prices == { -10000, 0, 9899, 9900, 10000, 10100, 10101 }

NaN == None

ExcludeCols == { "timestamp", "symbol" }

\* feature_cols = [col for col in df.columns if col not in exclude_cols]
FeatureCols(columns) ==
    LET Keep(col) == col \notin ExcludeCols
    IN  SelectSeq(columns, Keep)

ColSet(cols) == { cols[i] : i \in 1..Len(cols) }

\* df[feature_cols].dropna(): the rows without NaN in a feature column
DropNa(rows, cols) ==
    LET Complete(row) == \A c \in ColSet(cols) : row[c] # NaN
    IN  SelectSeq(rows, Complete)

\* the 0.01 of the two thresholds, as 1 / PctDen
PctDen == 100

FracLt(a, b) == a.num * b.den < b.num * a.den

\* the thresholds taken inclusive (<= and >=)
LabelInclusive(current_price, future_price) ==
    IF current_price > 0
    THEN LET price_change_pct == Frac(future_price - current_price, current_price)
         IN  IF ~FracLt(Frac(-1, PctDen), price_change_pct) THEN 0
             ELSE IF ~FracLt(price_change_pct, Frac(1, PctDen)) THEN 2
             ELSE 1
    ELSE 1

\* the label of one window, from the close at its end and the future close
Label(current_price, future_price) ==
    IF current_price > 0
    THEN LET price_change_pct == Frac(future_price - current_price, current_price)
         IN  IF FracLt(price_change_pct, Frac(-1, PctDen)) THEN 0
             ELSE IF FracLt(Frac(1, PctDen), price_change_pct) THEN 2
             ELSE 1
    ELSE 1

\* df_clean.iloc[k]['close'] if 'close' in df_clean.columns else 0  (k from 1)
CloseAt(df_clean, cols, k) ==
    IF "close" \in ColSet(cols) THEN Val(df_clean[k]["close"]) ELSE 0

\* the guard compares with sequence_length alone
CreateSequencesNoHorizon(table, sequence_length, prediction_horizon) ==
    LET feature_cols == FeatureCols(table.columns)
        df_clean     == DropNa(table.rows, feature_cols)
        count        == Len(df_clean) - sequence_length - prediction_horizon + 1
    IN  IF Len(df_clean) < sequence_length
        THEN [status |-> "raised"]
        ELSE [status |-> "ok",
              X |-> [i \in 1..count |-> SubSeq(df_clean, i, i + sequence_length - 1)],
              y |-> [i \in 1..count |->
                        Label(CloseAt(df_clean, feature_cols, i + sequence_length - 1),
                              CloseAt(df_clean, feature_cols,
                                      i + sequence_length + prediction_horizon - 1))],
              feature_columns |-> feature_cols]

\* the loop stops one window early
CreateSequencesDropsLast(table, sequence_length, prediction_horizon) ==
    LET feature_cols == FeatureCols(table.columns)
        df_clean     == DropNa(table.rows, feature_cols)
        count        == Len(df_clean) - sequence_length - prediction_horizon
    IN  IF Len(df_clean) < sequence_length + prediction_horizon
        THEN [status |-> "raised"]
        ELSE [status |-> "ok",
              X |-> [i \in 1..count |-> SubSeq(df_clean, i, i + sequence_length - 1)],
              y |-> [i \in 1..count |->
                        Label(CloseAt(df_clean, feature_cols, i + sequence_length - 1),
                              CloseAt(df_clean, feature_cols,
                                      i + sequence_length + prediction_horizon - 1))],
              feature_columns |-> feature_cols]

\* what create_sequences returns and records as self.feature_columns, or
\* that it raised ValueError
CreateSequences(table, sequence_length, prediction_horizon) ==
    LET feature_cols == FeatureCols(table.columns)
        df_clean     == DropNa(table.rows, feature_cols)
        count        == Len(df_clean) - sequence_length - prediction_horizon + 1
    IN  IF Len(df_clean) < sequence_length + prediction_horizon
        THEN [status |-> "raised"]
        ELSE [status |-> "ok",
              X |-> [i \in 1..count |-> SubSeq(df_clean, i, i + sequence_length - 1)],
              y |-> [i \in 1..count |->
                        Label(CloseAt(df_clean, feature_cols, i + sequence_length - 1),
                              CloseAt(df_clean, feature_cols,
                                      i + sequence_length + prediction_horizon - 1))],
              feature_columns |-> feature_cols]

create_sequences ==
    /\ seqOut.status = "not_called"
    /\ LET out == CreateSequences(df, seqArgs.sequence_length,
                                  seqArgs.prediction_horizon)
       IN  seqOut' = IF out.status = "raised"
                     THEN [status |-> "raised",
                           feature_columns |-> seqOut.feature_columns]
                     ELSE out
    /\ UNCHANGED <<df, seqArgs, storeVars, procVars, learnVars>>

RECURSIVE SeqsUpTo(_, _)
SeqsUpTo(S, n) ==
    IF n = 0 THEN { <<>> }
    ELSE LET shorter == SeqsUpTo(S, n - 1)
         IN  shorter \cup { Append(q, x) : q \in shorter, x \in S }

\* the tables: every row has a value or NaN in each feature column
Tables ==
    { [columns |-> <<"timestamp", "close", "symbol">>, rows |-> rows] :
        rows \in SeqsUpTo({ [close |-> v] : v \in { Some(p) : p \in Prices } \cup {NaN} },
                          MaxRows) }
    \cup
    { [columns |-> <<"timestamp", "volume">>, rows |-> rows] :
        rows \in SeqsUpTo({ [volume |-> v] : v \in { Some(1), NaN } }, MaxRows) }

\* self.feature_columns before the call: none yet, or those of an earlier
\* call on another table
PriorFeatureColumns == { <<>>, <<"open", "close">> }

InitSeq ==
    /\ exists = FALSE
    /\ file = <<>>
    /\ now = 0
    /\ ret = [op |-> "init", raised |-> FALSE]
    /\ lastWrite = "none"
    /\ pc = IdleProcs
    /\ loc = NoLocals
    /\ log0 = <<>>
    /\ df \in Tables
    /\ seqArgs \in [sequence_length : 1..MaxSeqLen, prediction_horizon : 1..MaxHorizon]
    /\ seqOut \in { [status |-> "not_called", feature_columns |-> cols] :
                       cols \in PriorFeatureColumns }
    /\ LearnIdle

NextSeq == create_sequences

SpecSeq == InitSeq /\ [][NextSeq]_vars

----------------------------------------------------------------------------
(* DataProcessor.normalize_features.  X[s][t][i] is the value of feature i *)
(* at window position t of sample s.                                       *)

Arrays == [1..NumSamples -> [1..WindowLen -> [1..NumFeatures -> 0..MaxRaw]]]

MinOf(S) == CHOOSE m \in S : \A x \in S : m <= x
MaxOf(S) == CHOOSE m \in S : \A x \in S : m >= x

\* MinMaxScaler().fit(X[:, :, i]): the slice is a [samples, window] matrix,
\* and the scaler keeps data_min_ and data_max_ of each of its columns
FitScaler(X, i) ==
    [t \in 1..WindowLen |->
        LET column == { X[s][t][i] : s \in 1..NumSamples }
        IN  [data_min |-> MinOf(column), data_max |-> MaxOf(column)]]

\* MinMaxScaler.transform on one value of column t: (x - data_min) * scale_,
\* scale_ = 1 / (data_max - data_min), and 1 where the column is constant
Scale(x, column) ==
    IF column.data_max = column.data_min
    THEN Frac(x - column.data_min, 1)
    ELSE Frac(x - column.data_min, column.data_max - column.data_min)

\* what normalize_features leaves in self.scalers and returns
NormalizeFeatures(old_scalers, X, fit) ==
    IF fit \/ old_scalers = NoScalers
    THEN LET fitted == [i \in 1..NumFeatures |-> FitScaler(X, i)]
         IN  [scalers |-> fitted,
              X |-> [s \in 1..NumSamples |-> [t \in 1..WindowLen |->
                       [i \in 1..NumFeatures |-> Scale(X[s][t][i], fitted[i][t])]]]]
    ELSE [scalers |-> old_scalers,
          X |-> [s \in 1..NumSamples |-> [t \in 1..WindowLen |->
                   [i \in 1..NumFeatures |->
                       IF i \in DOMAIN old_scalers
                       THEN Scale(X[s][t][i], old_scalers[i][t])
                       ELSE Frac(X[s][t][i], 1)]]]]

normalize_features(X, fit) ==
    /\ LET out == NormalizeFeatures(scalers, X, fit)
       IN  /\ scalers' = out.scalers
           /\ normOut' = [status |-> "returned", fit |-> fit,
                          fitted_before |-> (scalers # NoScalers),
                          raw |-> X, X |-> out.X]
    /\ UNCHANGED <<storeVars, procVars, seqVars, opsVars>>

    /\ UNCHANGED <<weightVars, evalOut, cycleVars>>

NextNorm == \E X \in Arrays, fit \in BOOLEAN : normalize_features(X, fit)

SpecNorm == Init /\ [][NextNorm]_vars

----------------------------------------------------------------------------
(* ContinuousLearner.calculate_sample_weights *)

FracAdd(a, b) == Frac(a.num * b.den + b.num * a.den, a.den * b.den)
FracMul(a, b) == Frac(a.num * b.num, a.den * b.den)
\* a / b for b > 0
FracDiv(a, b) == Frac(a.num * b.den, a.den * b.num)

RECURSIVE FracSum(_)
FracSum(q) == IF q = <<>> THEN Frac(0, 1) ELSE FracAdd(Head(q), FracSum(Tail(q)))

\* np.mean of a non-empty vector
FracMean(q) == FracDiv(FracSum(q), Frac(Len(q), 1))

\* a row of the table get_feedback_data builds from a closed record:
\* reward is the sign of profit_loss, weighted_reward is profit_loss / 100
FeedbackRow(signal_type, profit_loss, timestamp) ==
    [signal_type |-> signal_type,
     profit_loss |-> profit_loss,
     timestamp |-> timestamp,
     reward |-> IF profit_loss > 0 THEN 1 ELSE IF profit_loss < 0 THEN -1 ELSE 0,
     weighted_reward |-> Frac(profit_loss, 100)]

\* the sum of the profit_loss column
RECURSIVE SumProfitLossOf(_)
SumProfitLossOf(rows) ==
    IF rows = <<>> THEN 0 ELSE Head(rows).profit_loss + SumProfitLossOf(Tail(rows))

\* enumerate(['SELL', 'HOLD', 'BUY'])
LabelNames == <<"SELL", "HOLD", "BUY">>

\* np.linspace(0.8, 1.0, n_samples)[k - 1]
TimeDecay(n_samples, k) ==
    IF n_samples = 1 THEN Frac(4, 5)
    ELSE FracAdd(Frac(4, 5), Frac(k - 1, 5 * (n_samples - 1)))

\* signal_rewards.get(label_name, 0): the mean weighted_reward of the rows of
\* that signal type
SignalReward(feedback_df, label_name) ==
    LET group == SelectSeq(feedback_df, LAMBDA row : row.signal_type = label_name)
    IN  IF group = <<>> THEN Frac(0, 1)
        ELSE FracMean([k \in 1..Len(group) |-> group[k].weighted_reward])

\* np.clip(a, lo, hi)
Clip(a, lo, hi) == IF FracLt(a, lo) THEN lo ELSE IF FracLt(hi, a) THEN hi ELSE a

\* the multiplier without the clip
AdjustmentNoClip(feedback_df, label_name) ==
    IF feedback_df = <<>> THEN Frac(1, 1)
    ELSE FracAdd(Frac(1, 1), FracMul(SignalReward(feedback_df, label_name), Frac(3, 10)))

\* the multiplier of the samples of one class: np.clip(1.0 + reward * 0.3,
\* 0.5, 1.5), and no adjustment at all when the table is empty
Adjustment(feedback_df, label_name) ==
    IF feedback_df = <<>> THEN Frac(1, 1)
    ELSE Clip(FracAdd(Frac(1, 1), FracMul(SignalReward(feedback_df, label_name),
                                         Frac(3, 10))),
              Frac(1, 2), Frac(3, 2))

\* the weights without the final division by their mean
CalculateSampleWeightsNoNormalize(n_samples, y, feedback_df) ==
    [k \in 1..n_samples |->
        FracMul(TimeDecay(n_samples, k), Adjustment(feedback_df, LabelNames[y[k] + 1]))]

\* the vector calculate_sample_weights returns for len(X) = n_samples
CalculateSampleWeights(n_samples, y, feedback_df) ==
    LET weights == [k \in 1..n_samples |->
                      FracMul(TimeDecay(n_samples, k),
                              Adjustment(feedback_df, LabelNames[y[k] + 1]))]
        mean    == FracMean(weights)
    IN  [k \in 1..n_samples |-> FracDiv(weights[k], mean)]

\* X and y have one entry per sample; weight_mult is the multiplier the call
\* logs for each class (1 where it applies none)
calculate_sample_weights ==
    /\ weightOut.status = "not_called"
    /\ weightOut' = [status |-> "returned",
                     weights |-> CalculateSampleWeights(Len(labels), labels, feedback),
                     weight_mult |-> [c \in 1..3 |-> Adjustment(feedback, LabelNames[c])]]
    /\ UNCHANGED <<feedback, labels, evalOut, cycleVars, normVars, storeVars,
                   procVars, seqVars, opsVars>>

\* profit_loss of a closed signal, in percent; beyond +-167% the multiplier
\* reaches its limits
ProfitLosses == { -200, -50, 200 }

WeightTables ==
    SeqsUpTo({ FeedbackRow(t, pl, 0) : t \in {"SELL", "BUY"}, pl \in ProfitLosses },
             MaxFeedback)

LabelVectors == SeqsUpTo({0, 1, 2}, MaxTrain) \ { <<>> }

InitWeights ==
    /\ exists = FALSE
    /\ file = <<>>
    /\ now = 0
    /\ ret = [op |-> "init", raised |-> FALSE]
    /\ lastWrite = "none"
    /\ pc = IdleProcs
    /\ loc = NoLocals
    /\ log0 = <<>>
    /\ df = NoTable
    /\ seqArgs = NoSeqArgs
    /\ seqOut = NoSeqOut
    /\ scalers = NoScalers
    /\ normOut = NoCall
    /\ feedback \in WeightTables
    /\ labels \in LabelVectors
    /\ weightOut = NoCall
    /\ evalOut = NoCall
    /\ OpsIdle
    /\ CycleIdle

NextWeights == calculate_sample_weights

SpecWeights == InitWeights /\ [][NextWeights]_vars

----------------------------------------------------------------------------
(* ContinuousLearner.evaluate_improvement *)

\* the table is returned however few rows it has
AtLeastAlways(feedback_signals, min_samples) == Some(feedback_signals)

\* get_feedback_data returns None for fewer than min_samples rows
AtLeast(feedback_signals, min_samples) ==
    IF Len(feedback_signals) < min_samples THEN None ELSE Some(feedback_signals)

\* `len(feedback_df) < 10`
MinEvalSamples == 10

FracSub(a, b) == FracAdd(a, [num |-> -b.num, den |-> b.den])

\* feedback_df.sort_values('timestamp'), for rows of distinct timestamps
RECURSIVE SortByTimestamp(_)
SortByTimestamp(rows) ==
    IF rows = <<>> THEN <<>>
    ELSE LET first  == Head(rows)
             rest   == SortByTimestamp(Tail(rows))
             before == SelectSeq(rest, LAMBDA r : r.timestamp < first.timestamp)
             after  == SelectSeq(rest, LAMBDA r : r.timestamp >= first.timestamp)
         IN  before \o <<first>> \o after

\* count, success_rate and avg_return of one half (not empty)
PeriodStats(signals) ==
    [count |-> Len(signals),
     success_rate |-> Frac(100 * Len(SelectSeq(signals, LAMBDA r : r.reward > 0)),
                           Len(signals)),
     avg_return |-> Frac(SumProfitLossOf(signals), Len(signals))]

\* the halves are taken in the order of the table, unsorted
EvaluateImprovementNoSort(feedback_df) ==
    IF feedback_df = None \/ Len(Val(feedback_df)) < MinEvalSamples
    THEN [status |-> "insufficient_data"]
    ELSE LET sorted    == Val(feedback_df)
             split_idx == Len(sorted) \div 2
             early     == PeriodStats(SubSeq(sorted, 1, split_idx))
             recent    == PeriodStats(SubSeq(sorted, split_idx + 1, Len(sorted)))
             improvement ==
                 [success_rate_delta |-> FracSub(recent.success_rate, early.success_rate),
                  avg_return_delta |-> FracSub(recent.avg_return, early.avg_return)]
         IN  [status |-> "evaluated",
              early |-> early,
              recent |-> recent,
              improvement |-> improvement,
              is_improving |-> (improvement.success_rate_delta.num > 0
                                  \/ improvement.avg_return_delta.num > 0)]

\* the dict evaluate_improvement returns for the table (or None) that
\* get_feedback_data gave it
EvaluateImprovement(feedback_df) ==
    IF feedback_df = None \/ Len(Val(feedback_df)) < MinEvalSamples
    THEN [status |-> "insufficient_data"]
    ELSE LET sorted    == SortByTimestamp(Val(feedback_df))
             split_idx == Len(sorted) \div 2
             early     == PeriodStats(SubSeq(sorted, 1, split_idx))
             recent    == PeriodStats(SubSeq(sorted, split_idx + 1, Len(sorted)))
             improvement ==
                 [success_rate_delta |-> FracSub(recent.success_rate, early.success_rate),
                  avg_return_delta |-> FracSub(recent.avg_return, early.avg_return)]
         IN  [status |-> "evaluated",
              early |-> early,
              recent |-> recent,
              improvement |-> improvement,
              is_improving |-> (improvement.success_rate_delta.num > 0
                                  \/ improvement.avg_return_delta.num > 0)]

\* feedback holds the closed records of (symbol, timeframe) with a
\* profit_loss, in the order of the log
evaluate_improvement ==
    /\ evalOut.status = "not_called"
    /\ evalOut' = EvaluateImprovement(AtLeast(feedback, 1))
    /\ UNCHANGED <<weightVars, cycleVars, normVars, storeVars, procVars, seqVars, opsVars>>

\* profit_loss of the evaluated records: a loss, a small and a large gain
EvalProfitLosses == { -1, 1, 3 }

\* the profit_loss column: up to three runs of equal outcomes
EvalColumns ==
    { [k \in 1..(a + b + c) |-> IF k <= a THEN u ELSE IF k <= a + b THEN v ELSE w] :
        u \in EvalProfitLosses, v \in EvalProfitLosses, w \in EvalProfitLosses,
        a \in 0..MaxRun, b \in 0..MaxRun, c \in 0..MaxRun }

\* the records are in the log oldest first, or newest first
EvalTables ==
    { [k \in 1..Len(col) |-> FeedbackRow("BUY", col[k], k)] : col \in EvalColumns }
    \cup
    { [k \in 1..Len(col) |-> FeedbackRow("BUY", col[k], Len(col) + 1 - k)] :
        col \in EvalColumns }

InitEval ==
    /\ exists = FALSE
    /\ file = <<>>
    /\ now = 0
    /\ ret = [op |-> "init", raised |-> FALSE]
    /\ lastWrite = "none"
    /\ pc = IdleProcs
    /\ loc = NoLocals
    /\ log0 = <<>>
    /\ df = NoTable
    /\ seqArgs = NoSeqArgs
    /\ seqOut = NoSeqOut
    /\ scalers = NoScalers
    /\ normOut = NoCall
    /\ feedback \in EvalTables
    /\ labels = <<>>
    /\ weightOut = NoCall
    /\ evalOut = NoCall
    /\ OpsIdle
    /\ CycleIdle

NextEval == evaluate_improvement

SpecEval == InitEval /\ [][NextEval]_vars

----------------------------------------------------------------------------
(* ContinuousLearner.retrain_with_feedback and incremental_update: one     *)
(* learning cycle, step by step.  The market data file is its number of    *)
(* rows; labels is the y that prepare_training_data returns.               *)

\* get_feedback_data(symbol, timeframe, min_samples=5)
MinSamples == 5

\* df.tail(720)
RecentRows == 720

\* the table get_feedback_data returns, None, or that load_signals raised
GetFeedbackData(ex, f, t, symbol, timeframe, min_samples) ==
    LET loaded == LoadSignals(ex, f, None, t)
        Keep(r) == /\ r.symbol = symbol
                   /\ r.timeframe = timeframe
                   /\ r.status = "CLOSED"
                   /\ r.profit_loss # None
        feedback_signals == SelectSeq(loaded.signals, Keep)
        rows == [k \in 1..Len(feedback_signals) |->
                    LET r == feedback_signals[k]
                    IN  FeedbackRow(IF r.signal_type = None THEN "None"
                                    ELSE Val(r.signal_type),
                                    Val(r.profit_loss), r.timestamp)]
    IN  IF loaded.raised
        THEN [raised |-> TRUE, df |-> None]
        ELSE [raised |-> FALSE, df |-> AtLeast(rows, min_samples)]

\* the (symbol, timeframe) of the cycle
CycleSymbol    == "BTCUSDT"
CycleTimeframe == "1h"

\* predictor.train(X, y, sample_weight=...): it returns its results, or a
\* member fails to fit and it raises
TrainOutcomes == { "returned", "raised" }

\* existing_model_path of a direct call: not given, or the model path
ModelPaths == { None, Some("model_path") }

\* retrain_with_feedback called directly
retrain_with_feedback(existing_model_path) ==
    /\ cycle.pc = "idle"
    /\ cycle' = [cycle EXCEPT !.pc = "load_data",
                              !.entry = "retrain_with_feedback",
                              !.existing_model_path = existing_model_path]
    /\ UNCHANGED <<dataRows, modelFile, metaFile, normVars, weightVars, evalOut,
                   storeVars, procVars, seqVars, opsVars>>

\* incremental_update up to its call of retrain_with_feedback: without a
\* saved model a plain retraining; with one, it reads the file, takes
\* df_recent = df.tail(720) and passes the path of the file and the model path
incremental_update ==
    /\ cycle.pc = "idle"
    /\ cycle' = IF modelFile = None
                THEN [cycle EXCEPT !.pc = "load_data",
                                   !.entry = "incremental_update"]
                ELSE [cycle EXCEPT !.pc = "load_data",
                                   !.entry = "incremental_update",
                                   !.df_recent = Some(IF dataRows < RecentRows
                                                      THEN dataRows ELSE RecentRows),
                                   !.existing_model_path = Some("model_path")]
    /\ UNCHANGED <<dataRows, modelFile, metaFile, normVars, weightVars, evalOut,
                   storeVars, procVars, seqVars, opsVars>>

\* 1. df = pd.read_csv(market_data_path)
LoadData ==
    /\ cycle.pc = "load_data"
    /\ cycle' = [cycle EXCEPT !.pc = "prepare",
                              !.df = Some(dataRows),
                              !.steps = Append(@, "load_data")]
    /\ UNCHANGED <<dataRows, modelFile, metaFile, normVars, weightVars, evalOut,
                   storeVars, procVars, seqVars, opsVars>>

\* 2. X, y = self.data_processor.prepare_training_data(df)
PrepareFeatures ==
    /\ cycle.pc = "prepare"
    /\ cycle' = [cycle EXCEPT !.pc = "load_feedback",
                              !.training_samples = Some(Len(labels)),
                              !.steps = Append(@, "prepare_training_data")]
    /\ UNCHANGED <<dataRows, modelFile, metaFile, normVars, weightVars, evalOut,
                   storeVars, procVars, seqVars, opsVars>>

\* 3. feedback_df = get_feedback_data(symbol, timeframe, min_samples=5)
LoadFeedback ==
    /\ cycle.pc = "load_feedback"
    /\ LET got == GetFeedbackData(exists, file, now, CycleSymbol, CycleTimeframe,
                                  MinSamples)
       IN  cycle' = IF got.raised
                    THEN [cycle EXCEPT !.pc = "failed",
                                       !.steps = Append(@, "get_feedback_data")]
                    ELSE [cycle EXCEPT !.pc = "weights",
                                       !.feedback_df = got.df,
                                       !.steps = Append(@, "get_feedback_data")]
    /\ UNCHANGED <<dataRows, modelFile, metaFile, normVars, weightVars, evalOut,
                   storeVars, procVars, seqVars, opsVars>>

\* sample_weights: computed from a table that is there and not empty
ComputeWeights ==
    /\ cycle.pc = "weights"
    /\ cycle' = [cycle EXCEPT
                   !.pc = "train",
                   !.sample_weights =
                       IF cycle.feedback_df # None /\ Len(Val(cycle.feedback_df)) > 0
                       THEN Some(CalculateSampleWeights(Len(labels), labels,
                                                        Val(cycle.feedback_df)))
                       ELSE None,
                   !.steps = Append(@, "sample_weights")]
    /\ UNCHANGED <<dataRows, modelFile, metaFile, normVars, weightVars, evalOut,
                   storeVars, procVars, seqVars, opsVars>>

\* the model is saved without waiting for train
SaveModelUntrained ==
    /\ cycle.pc = "train"
    /\ modelFile' = Some("this_run")
    /\ cycle' = [cycle EXCEPT !.pc = "write_metadata",
                              !.steps = Append(@, "save_models")]
    /\ UNCHANGED <<dataRows, metaFile, normVars, weightVars, evalOut,
                   storeVars, procVars, seqVars, opsVars>>

\* 6. predictor.save_models(model_path)
SaveModel ==
    /\ cycle.pc = "save_models"
    /\ modelFile' = Some("this_run")
    /\ cycle' = [cycle EXCEPT !.pc = "write_metadata",
                              !.steps = Append(@, "save_models")]
    /\ UNCHANGED <<dataRows, metaFile, normVars, weightVars, evalOut,
                   storeVars, procVars, seqVars, opsVars>>

\* 4. and 5. load the existing model or build a new one, then
\* results = predictor.train(X, y, sample_weight=sample_weights)
TrainModel(outcome) ==
    /\ cycle.pc = "train"
    /\ cycle' = [cycle EXCEPT
                   !.pc = IF outcome = "returned" THEN "save_models" ELSE "failed",
                   !.train = Some([rows |-> Val(cycle.df),
                                   samples |-> Val(cycle.training_samples),
                                   sample_weight |-> cycle.sample_weights,
                                   model |-> IF cycle.existing_model_path # None
                                                /\ modelFile # None
                                             THEN "load_models" ELSE "build_models",
                                   outcome |-> outcome]),
                   !.steps = Append(@, "train")]
    /\ UNCHANGED <<dataRows, modelFile, metaFile, normVars, weightVars, evalOut,
                   storeVars, procVars, seqVars, opsVars>>

\* the metadata dict (without the scores taken from the results of train)
Metadata ==
    [symbol |-> CycleSymbol,
     timeframe |-> CycleTimeframe,
     trained_at |-> now,
     training_samples |-> Val(cycle.training_samples),
     feedback_samples |-> IF cycle.feedback_df # None
                          THEN Len(Val(cycle.feedback_df)) ELSE 0,
     used_feedback_weights |-> (cycle.sample_weights # None)]

\* 7. json.dump(metadata, f) into the .meta.json file
WriteMetadata ==
    /\ cycle.pc = "write_metadata"
    /\ metaFile' = Some(Metadata)
    /\ cycle' = [cycle EXCEPT !.pc = "done",
                              !.steps = Append(@, "write_metadata")]
    /\ UNCHANGED <<dataRows, modelFile, normVars, weightVars, evalOut,
                   storeVars, procVars, seqVars, opsVars>>

\* a signal of the cycle's symbol, with a generated id and the default
\* timeframe (1h) or another one
CycleSignal(timeframe) ==
    [id |-> None, pair |-> CycleSymbol, timeframe |-> timeframe,
     signalType |-> Some("BUY"), timestamp |-> None, indicators |-> None]

\* what became of the signal recorded at time t: closed with a profit, still
\* active, or closed on another timeframe
LoggedRecord(kind, t) ==
    LET success == CHOOSE u \in OutcomeInputs : u.outcome = "SUCCESS"
    IN  IF kind = "closed"
        THEN CloseSignal(<<NewRecord(CycleSignal(None), t)>>, 1, success, t)[1]
        ELSE IF kind = "active"
        THEN NewRecord(CycleSignal(None), t)
        ELSE CloseSignal(<<NewRecord(CycleSignal(Some("4h")), t)>>, 1, success, t)[1]

CycleLogs ==
    UNION { { [t \in 1..n |-> JsonDumps(LoggedRecord(kinds[t], t))] :
                kinds \in [1..n -> {"closed", "active", "closed_4h"}] } :
            n \in 0..MaxCycleLog }

\* the model and its metadata as an earlier cycle left them
EarlierMetadata ==
    [symbol |-> CycleSymbol, timeframe |-> CycleTimeframe, trained_at |-> -1,
     training_samples |-> 3, feedback_samples |-> 0,
     used_feedback_weights |-> FALSE]

InitCycle ==
    /\ file \in CycleLogs
    /\ exists = (file # <<>>)
    /\ now = MaxCycleLog + 1
    /\ ret = [op |-> "init", raised |-> FALSE]
    /\ lastWrite = "none"
    /\ pc = IdleProcs
    /\ loc = NoLocals
    /\ log0 = <<>>
    /\ df = NoTable
    /\ seqArgs = NoSeqArgs
    /\ seqOut = NoSeqOut
    /\ scalers = NoScalers
    /\ normOut = NoCall
    /\ feedback = <<>>
    /\ labels = <<0, 1, 2>>
    /\ weightOut = NoCall
    /\ evalOut = NoCall
    /\ OpsIdle
    /\ cycle = NoCycle
    /\ dataRows \in { RecentRows, RecentRows + 1 }
    /\ \/ modelFile = None /\ metaFile = None
       \/ modelFile = Some("earlier_run") /\ metaFile = Some(EarlierMetadata)

NextCycle ==
    \/ \E existing_model_path \in ModelPaths : retrain_with_feedback(existing_model_path)
    \/ incremental_update
    \/ LoadData
    \/ PrepareFeatures
    \/ LoadFeedback
    \/ ComputeWeights
    \/ \E outcome \in TrainOutcomes : TrainModel(outcome)
    \/ SaveModel
    \/ WriteMetadata

SpecCycle == InitCycle /\ [][NextCycle]_vars

----------------------------------------------------------------------------
(* EnsemblePricePredictor, the ensemble that trainer.py,                   *)
(* continuous_learner.py and signal_generator.py import from models.  It   *)
(* is UNBUILT, BUILT or TRAINED.  votes[m] is the class index member m     *)
(* predicts for the sample.                                                *)

Classes == 0..2

VotesFor(votes, c) == Cardinality({ m \in DOMAIN votes : votes[m] = c })

\* among the classes with the most votes, the last one
HardVoteLastMax(votes) ==
    LET best == IF VotesFor(votes, 1) >= VotesFor(votes, 0) THEN 1 ELSE 0
    IN  IF VotesFor(votes, 2) >= VotesFor(votes, best) THEN 2 ELSE best

\* the mode of the members' votes: the classes are taken in the order SELL,
\* HOLD, BUY and a later class wins only with strictly more votes
HardVote(votes) ==
    LET best == IF VotesFor(votes, 1) > VotesFor(votes, 0) THEN 1 ELSE 0
    IN  IF VotesFor(votes, 2) > VotesFor(votes, best) THEN 2 ELSE best

\* build_models(): new, untrained members
build_models ==
    /\ predictor' = [state |-> "BUILT"]
    /\ predOut' = [op |-> "build_models", raised |-> FALSE, before |-> predictor.state]
    /\ UNCHANGED <<artifact, normVars, weightVars, evalOut, cycleVars,
                   storeVars, procVars, seqVars,
                   ensVars, lstmVars, trainerVars>>

\* train(X, y, sample_weight): refused when UNBUILT; a member that fails to
\* fit fails the whole call and leaves the ensemble as it was
train(outcome) ==
    /\ IF predictor.state = "UNBUILT"
       THEN /\ predOut' = [op |-> "train", raised |-> TRUE, before |-> predictor.state,
                           error |-> "not_built"]
            /\ UNCHANGED predictor
       ELSE IF outcome = "raised"
       THEN /\ predOut' = [op |-> "train", raised |-> TRUE, before |-> predictor.state,
                           error |-> "TrainingError"]
            /\ UNCHANGED predictor
       ELSE /\ predOut' = [op |-> "train", raised |-> FALSE, before |-> predictor.state]
            /\ predictor' = [state |-> "TRAINED"]
    /\ UNCHANGED <<artifact, normVars, weightVars, evalOut, cycleVars,
                   storeVars, procVars, seqVars,
                   ensVars, lstmVars, trainerVars>>

\* predict answers in every state
predict_unguarded(votes) ==
    /\ predOut' = [op |-> "predict", raised |-> FALSE, before |-> predictor.state,
                   votes |-> votes, pred |-> HardVote(votes)]
    /\ UNCHANGED <<predictor, artifact, normVars, weightVars, evalOut, cycleVars,
                   storeVars, procVars, seqVars,
                   ensVars, lstmVars, trainerVars>>

\* predict(X) for one sample: NotTrainedError unless TRAINED, else the hard
\* vote of the members
predict(votes) ==
    /\ predOut' = IF predictor.state # "TRAINED"
                  THEN [op |-> "predict", raised |-> TRUE, before |-> predictor.state,
                        error |-> "NotTrainedError"]
                  ELSE [op |-> "predict", raised |-> FALSE, before |-> predictor.state,
                        votes |-> votes, pred |-> HardVote(votes)]
    /\ UNCHANGED <<predictor, artifact, normVars, weightVars, evalOut, cycleVars,
                   storeVars, procVars, seqVars,
                   ensVars, lstmVars, trainerVars>>

\* save_models(path): the whole state, the trained flag included, as one blob
save_models ==
    /\ artifact' = Some(predictor.state)
    /\ predOut' = [op |-> "save_models", raised |-> FALSE, before |-> predictor.state]
    /\ UNCHANGED <<predictor, normVars, weightVars, evalOut, cycleVars,
                   storeVars, procVars, seqVars,
                   ensVars, lstmVars, trainerVars>>

\* load_models(path): the state of the blob; without a blob the call fails
load_models ==
    /\ IF artifact = None
       THEN /\ predOut' = [op |-> "load_models", raised |-> TRUE,
                           before |-> predictor.state, error |-> "no_file"]
            /\ UNCHANGED predictor
       ELSE /\ predOut' = [op |-> "load_models", raised |-> FALSE,
                           before |-> predictor.state]
            /\ predictor' = [state |-> Val(artifact)]
    /\ UNCHANGED <<artifact, normVars, weightVars, evalOut, cycleVars,
                   storeVars, procVars, seqVars,
                   ensVars, lstmVars, trainerVars>>

\* predictor2 = EnsemblePricePredictor(): a new, unbuilt ensemble; the blob
\* stays on disk
NewPredictor ==
    /\ predictor' = [state |-> "UNBUILT"]
    /\ predOut' = [op |-> "init", raised |-> FALSE]
    /\ UNCHANGED <<artifact, normVars, weightVars, evalOut, cycleVars,
                   storeVars, procVars, seqVars,
                   ensVars, lstmVars, trainerVars>>

\* one vote of each member
VoteVectors == [1..MaxMembers -> Classes]

NextPredictor ==
    \/ NewPredictor
    \/ build_models
    \/ \E outcome \in TrainOutcomes : train(outcome)
    \/ \E votes \in VoteVectors : predict(votes)
    \/ save_models
    \/ load_models

SpecPredictor == Init /\ [][NextPredictor]_vars

----------------------------------------------------------------------------
(* EnsemblePredictor (models.py): a list of models and a list of weights.  *)
(* A model is known by the probability vector it predicts for the sample,  *)
(* in hundredths: <<p(SELL), p(HOLD), p(BUY)>>.                            *)

ProbVectors == { <<100, 0, 0>>, <<0, 100, 0>>, <<20, 30, 50>> }

\* the weights given to add_model; 1 is weight's default
Weights == { 1, 2 }

ClassSlots == 1..3

RECURSIVE SumInts(_)
SumInts(q) == IF q = <<>> THEN 0 ELSE Head(q) + SumInts(Tail(q))

Shorter(a, b) == IF Len(a) <= Len(b) THEN Len(a) ELSE Len(b)

\* every model counts once: the plain average of the models' vectors
AveragedPredictions(all_predictions) ==
    [c \in ClassSlots |->
        FracMean([i \in 1..Len(all_predictions) |-> Frac(all_predictions[i][c], 1)])]

\* lines 358-364: weights / np.sum(weights), then the sum of pred * weight
\* over zip(all_predictions, weights), which stops at the shorter list
WeightedPredictions(all_predictions, weights) ==
    LET total == SumInts(weights)
    IN  [c \in ClassSlots |->
            FracSum([i \in 1..Shorter(all_predictions, weights) |->
                        FracMul(Frac(all_predictions[i][c], 1),
                                Frac(weights[i], total))])]

\* EnsemblePredictor(models): the models are kept, the weights start empty
EnsemblePredictor(models) ==
    /\ ens' = [models |-> models, weights |-> <<>>]
    /\ ensOut' = [op |-> "init", raised |-> FALSE]
    /\ UNCHANGED <<predVars, lstmVars, trainerVars, normVars, weightVars, evalOut,
                   cycleVars, storeVars, procVars, seqVars>>

\* add_model(model, weight)
add_model(model, weight) ==
    /\ Len(ens.models) < MaxMembers
    /\ ens' = [models |-> Append(ens.models, model),
               weights |-> Append(ens.weights, weight)]
    /\ ensOut' = [op |-> "add_model", raised |-> FALSE]
    /\ UNCHANGED <<predVars, lstmVars, trainerVars, normVars, weightVars, evalOut,
                   cycleVars, storeVars, procVars, seqVars>>

\* predict_ensemble(X) for one sample: ValueError without models
predict_ensemble ==
    /\ ensOut' = IF ens.models = <<>>
                 THEN [op |-> "predict_ensemble", raised |-> TRUE,
                       error |-> "ValueError"]
                 ELSE [op |-> "predict_ensemble", raised |-> FALSE,
                       ensemble_pred |-> WeightedPredictions(ens.models, ens.weights)]
    /\ UNCHANGED <<ens, predVars, lstmVars, trainerVars, normVars, weightVars, evalOut,
                   cycleVars, storeVars, procVars, seqVars>>

\* np.argmax: the first class with the highest probability
ArgMax(pred) ==
    CHOOSE c \in ClassSlots :
        /\ \A d \in ClassSlots : ~FracLt(pred[c], pred[d])
        /\ \A d \in ClassSlots : d < c => FracLt(pred[d], pred[c])

\* test_ml_setup.py lines 73-74: the probability of the emitted class; the
\* vectors are in hundredths already
Confidence(pred) == pred[ArgMax(pred)]

NextEnsemble ==
    \/ \E models \in SeqsUpTo(ProbVectors, MaxMembers - 1) : EnsemblePredictor(models)
    \/ \E model \in ProbVectors, weight \in Weights : add_model(model, weight)
    \/ predict_ensemble

SpecEnsemble == Init /\ [][NextEnsemble]_vars

----------------------------------------------------------------------------
(* LSTMPricePredictor (models.py): self.model is None until build_model or *)
(* load_model sets it; self.history is set by a fit that returned.  Every  *)
(* method logs and re-raises what is raised inside it.                     *)

\* keras returns or raises
CallOutcomes == { "returned", "raised" }

\* the result of a guarded method: ValueError from the guard when there is
\* no model, else what keras does
GuardedCall(op, outcome, value) ==
    [op |-> op, before |-> lstm,
     raised |-> (lstm.model = None \/ outcome = "raised"),
     error |-> IF lstm.model = None THEN "ValueError"
               ELSE IF outcome = "raised" THEN "keras" ELSE "none",
     value |-> IF lstm.model = None \/ outcome = "raised" THEN None ELSE Some(value)]

\* the same method without its guard: with no model, self.model.<method>
\* is an attribute of None
UnguardedCall(op, outcome, value) ==
    [op |-> op, before |-> lstm,
     raised |-> (lstm.model = None \/ outcome = "raised"),
     error |-> IF lstm.model = None THEN "AttributeError"
               ELSE IF outcome = "raised" THEN "keras" ELSE "none",
     value |-> IF lstm.model = None \/ outcome = "raised" THEN None ELSE Some(value)]

\* build_model(input_shape): self.model = model is the last assignment
lstm_build_model(outcome) ==
    /\ lstmOut' = [op |-> "build_model", before |-> lstm,
                   raised |-> (outcome = "raised"),
                   error |-> IF outcome = "raised" THEN "keras" ELSE "none"]
    /\ lstm' = IF outcome = "raised" THEN lstm
               ELSE [lstm EXCEPT !.model = Some("built")]
    /\ UNCHANGED <<predVars, ensVars, trainerVars, normVars, weightVars, evalOut,
                   cycleVars, storeVars, procVars, seqVars>>

\* load_model(filepath): self.model = models.load_model(filepath), which
\* raises when there is no file
lstm_load_model(outcome) ==
    /\ lstmOut' = [op |-> "load_model", before |-> lstm,
                   raised |-> (lstm.file = None \/ outcome = "raised"),
                   error |-> IF lstm.file = None \/ outcome = "raised"
                             THEN "keras" ELSE "none"]
    /\ lstm' = IF lstmOut'.raised THEN lstm
               ELSE [lstm EXCEPT !.model = Some("loaded")]
    /\ UNCHANGED <<predVars, ensVars, trainerVars, normVars, weightVars, evalOut,
                   cycleVars, storeVars, procVars, seqVars>>

\* train(X, y, validation_split): self.history = history after fit returned
lstm_train(outcome) ==
    /\ lstmOut' = GuardedCall("train", outcome, "history")
    /\ lstm' = IF lstmOut'.raised THEN lstm
               ELSE [lstm EXCEPT !.history = Some(Val(lstm.model))]
    /\ UNCHANGED <<predVars, ensVars, trainerVars, normVars, weightVars, evalOut,
                   cycleVars, storeVars, procVars, seqVars>>

\* predict(X, return_probabilities): the probabilities, or their argmax
lstm_predict(return_probabilities, outcome) ==
    /\ lstmOut' = GuardedCall("predict", outcome,
                              IF return_probabilities THEN "probabilities"
                              ELSE "classes")
    /\ UNCHANGED <<lstm, predVars, ensVars, trainerVars, normVars, weightVars, evalOut,
                   cycleVars, storeVars, procVars, seqVars>>

\* evaluate(X, y): its own guard, then self.predict
lstm_evaluate(outcome) ==
    /\ lstmOut' = GuardedCall("evaluate", outcome, "evaluation_results")
    /\ UNCHANGED <<lstm, predVars, ensVars, trainerVars, normVars, weightVars, evalOut,
                   cycleVars, storeVars, procVars, seqVars>>

\* save_model without 'if self.model is None'
lstm_save_model_unguarded(outcome) ==
    /\ lstmOut' = UnguardedCall("save_model", outcome, "None")
    /\ lstm' = IF lstmOut'.raised THEN lstm
               ELSE [lstm EXCEPT !.file = Some(IF lstm.history = None
                                               THEN "untrained" ELSE "trained")]
    /\ UNCHANGED <<predVars, ensVars, trainerVars, normVars, weightVars, evalOut,
                   cycleVars, storeVars, procVars, seqVars>>

\* save_model(filepath): self.model.save(filepath) writes the file
lstm_save_model(outcome) ==
    /\ lstmOut' = GuardedCall("save_model", outcome, "None")
    /\ lstm' = IF lstmOut'.raised THEN lstm
               ELSE [lstm EXCEPT !.file = Some(IF lstm.history = None
                                               THEN "untrained" ELSE "trained")]
    /\ UNCHANGED <<predVars, ensVars, trainerVars, normVars, weightVars, evalOut,
                   cycleVars, storeVars, procVars, seqVars>>

\* LSTMPricePredictor(): a new predictor; the file stays on disk
NewLstm ==
    /\ lstm' = [model |-> None, history |-> None, file |-> lstm.file]
    /\ lstmOut' = [op |-> "init", raised |-> FALSE]
    /\ UNCHANGED <<predVars, ensVars, trainerVars, normVars, weightVars, evalOut,
                   cycleVars, storeVars, procVars, seqVars>>

NextLstm ==
    \/ NewLstm
    \/ \E outcome \in CallOutcomes : lstm_build_model(outcome)
    \/ \E outcome \in CallOutcomes : lstm_load_model(outcome)
    \/ \E outcome \in CallOutcomes : lstm_train(outcome)
    \/ \E return_probabilities \in BOOLEAN, outcome \in CallOutcomes :
          lstm_predict(return_probabilities, outcome)
    \/ \E outcome \in CallOutcomes : lstm_evaluate(outcome)
    \/ \E outcome \in CallOutcomes : lstm_save_model(outcome)

SpecLstm == Init /\ [][NextLstm]_vars

----------------------------------------------------------------------------
(* LearningScheduler.evaluate_performance (learning_scheduler.py): for     *)
(* each configured symbol, the statistics of the last seven days decide    *)
(* whether continuous_learner.py is run for it.                            *)

\* days=7 of the call of get_performance_stats
StatsDays == 7

\* the clock of the evaluation: a signal of time 0 is too old, one of time 1
\* is just inside the seven days
EvalTime == StatsDays + 1

\* config['schedules']['fetch_data']['symbols']
ScheduledSymbols == <<"BTCUSDT", "ETHUSDT">>

\* min_feedback_samples, auto_retrain_on_poor_performance and
\* poor_performance_threshold of scheduler_config.json; 40 is the default
SchedulerConfigs ==
    [min_feedback_samples : {1, 2},
     auto_retrain_on_poor_performance : BOOLEAN,
     poor_performance_threshold : {40, 50}]

\* what subprocess.run does: the child exits with 0 or not, or run raises
RunOutcomes == { "exit_0", "exit_1", "TimeoutExpired" }

\* the signals of a log: symbol, what became of the signal, when it was
\* recorded
LoggedKinds ==
    { [pair |-> "BTCUSDT", outcome |-> Some("SUCCESS"), timestamp |-> 1],
      [pair |-> "BTCUSDT", outcome |-> Some("FAILURE"), timestamp |-> 1],
      [pair |-> "BTCUSDT", outcome |-> Some("FAILURE"), timestamp |-> 0],
      [pair |-> "BTCUSDT", outcome |-> None,            timestamp |-> 1],
      [pair |-> "ETHUSDT", outcome |-> Some("TOOK_PROFIT"), timestamp |-> 1],
      [pair |-> "ETHUSDT", outcome |-> Some("STOPPED_OUT"), timestamp |-> 1] }

\* the record of the i-th signal of a log, recorded by record_signal and
\* closed, if it has an outcome, by update_signal_outcome
ScheduledRecord(kind, i) ==
    LET record == NewRecord([id |-> Some(<<"scheduled", i>>), pair |-> kind.pair,
                             timeframe |-> None, signalType |-> Some("BUY"),
                             timestamp |-> Some(kind.timestamp),
                             indicators |-> None], kind.timestamp)
        u == CHOOSE x \in OutcomeInputs : kind.outcome = Some(x.outcome)
    IN  IF kind.outcome = None THEN record
        ELSE CloseSignal(<<record>>, 1, u, kind.timestamp)[1]

ScheduledLogs ==
    UNION { { [i \in 1..n |-> JsonDumps(ScheduledRecord(kinds[i], i))] :
                kinds \in [1..n -> LoggedKinds] } :
            n \in 0..MaxSchedLog }

\* lines 154-156: too few closed signals
TooFewSamples(config, stats) ==
    stats.closed_signals < config.min_feedback_samples

\* the retraining is triggered at the threshold already
NeedsRetrainAtThreshold(config, stats) ==
    /\ config.auto_retrain_on_poor_performance
    /\ ~FracLt(Frac(config.poor_performance_threshold, 1), stats.success_rate)

\* lines 162-163
NeedsRetrain(config, stats) ==
    /\ config.auto_retrain_on_poor_performance
    /\ FracLt(stats.success_rate, Frac(config.poor_performance_threshold, 1))

\* one pass of the loop body for a symbol: the statistics, and what is done.
\* subprocess.run is inside try/except Exception, and its exit code is not
\* looked at.
EvaluateSymbol(config, symbol, outcome) ==
    LET loaded == LoadSignals(exists, file, Some(StatsDays), now)
        stats  == PerformanceStats(FilterSignals(loaded.signals, Some(symbol), None))
    IN  IF loaded.raised
        THEN [symbol |-> symbol, raised |-> TRUE, action |-> "none"]
        ELSE IF TooFewSamples(config, stats)
        THEN [symbol |-> symbol, raised |-> FALSE, action |-> "skipped",
              closed_signals |-> stats.closed_signals]
        ELSE IF NeedsRetrain(config, stats)
        THEN [symbol |-> symbol, raised |-> FALSE, action |-> "retrain",
              closed_signals |-> stats.closed_signals,
              success_rate |-> stats.success_rate,
              run |-> outcome]
        ELSE [symbol |-> symbol, raised |-> FALSE, action |-> "kept",
              closed_signals |-> stats.closed_signals,
              success_rate |-> stats.success_rate]

\* the loop over the symbols, from the i-th on; an exception that leaves
\* the loop body ends the loop
RECURSIVE EvaluateFrom(_, _, _)
EvaluateFrom(config, outcomes, i) ==
    IF i > Len(ScheduledSymbols) THEN <<>>
    ELSE LET e == EvaluateSymbol(config, ScheduledSymbols[i], outcomes[i])
         IN  IF e.raised THEN <<e>>
             ELSE <<e>> \o EvaluateFrom(config, outcomes, i + 1)

\* evaluate_performance(): outcomes[i] is what running continuous_learner.py
\* for the i-th symbol would do.  The job changes nothing of what it reads,
\* so one run of it is followed.
evaluate_performance(config, outcomes) ==
    /\ sched.status = "not_called"
    /\ sched' = [status |-> "called", config |-> config, outcomes |-> outcomes,
                 evaluated |-> EvaluateFrom(config, outcomes, 1)]
    /\ UNCHANGED <<auto, predVars, ensVars, lstmVars, normVars, weightVars, evalOut,
                   cycleVars, storeVars, procVars, seqVars>>

InitScheduler ==
    /\ file \in ScheduledLogs
    /\ exists = (file # <<>>)
    /\ now = EvalTime
    /\ ret = [op |-> "init", raised |-> FALSE]
    /\ lastWrite = "none"
    /\ pc = IdleProcs
    /\ loc = NoLocals
    /\ log0 = <<>>
    /\ df = NoTable
    /\ seqArgs = NoSeqArgs
    /\ seqOut = NoSeqOut
    /\ LearnIdle

NextScheduler ==
    \E config \in SchedulerConfigs,
       outcomes \in [1..Len(ScheduledSymbols) -> RunOutcomes] :
        evaluate_performance(config, outcomes)

SpecScheduler == InitScheduler /\ [][NextScheduler]_vars

----------------------------------------------------------------------------
(* auto_trainer.py: AutoTrainer.train_all and train_model, and the script  *)
(* run with --mode retrain.  A pair is <<symbol, timeframe>>.              *)

\* "symbols" and "timeframes" of the default configuration
DefaultSymbols ==
    <<"BTCUSDT", "ETHUSDT", "BNBUSDT", "SOLUSDT", "XRPUSDT",
      "ADAUSDT", "DOGEUSDT", "MATICUSDT", "DOTUSDT", "AVAXUSDT">>
DefaultTimeframes == <<"1h", "4h">>

\* "retrain_interval_hours" of the default configuration
RetrainIntervalHours == 24

\* the k-th pair of the nested loops over the first n symbols and the
\* first m timeframes
PairAt(m, k) ==
    <<DefaultSymbols[((k - 1) \div m) + 1], DefaultTimeframes[((k - 1) % m) + 1]>>

\* fetch_data returns the path of the data file, or None
FetchOutcomes == { "fetched", "None" }

\* trainer.py: it exits with 0 after writing the model file, exits with 0
\* without one, exits with 1, or Popen raises
TrainerOutcomes ==
    { [returncode |-> Some(0), saved |-> TRUE],
      [returncode |-> Some(0), saved |-> FALSE],
      [returncode |-> Some(1), saved |-> FALSE],
      [returncode |-> None, saved |-> FALSE] }

\* success whenever the trainer exits with 0
TrainSucceededOnExit(returncode, model_exists) ==
    returncode = Some(0)

\* line 137: returncode == 0 and model_file.exists()
TrainSucceeded(returncode, model_exists) ==
    returncode = Some(0) /\ model_exists

\* train_model(symbol, timeframe) on the disk of a: its return value, what
\* it saw, and the disk afterwards
TrainModel_(a, pair, fetch, trainer) ==
    IF pair \notin a.data /\ fetch = "None"
    THEN [success |-> FALSE, started |-> FALSE, returncode |-> None,
          model_exists |-> pair \in a.models,
          models |-> a.models, meta |-> a.meta, data |-> a.data]
    ELSE LET models == IF trainer.saved THEN a.models \cup {pair} ELSE a.models
             ok     == TrainSucceeded(trainer.returncode, pair \in models)
         IN  [success |-> ok, started |-> TRUE, returncode |-> trainer.returncode,
              model_exists |-> pair \in models,
              models |-> models,
              meta |-> IF ok THEN [q \in DOMAIN a.meta \cup {pair} |->
                                      IF q = pair THEN 0 ELSE a.meta[q]]
                       ELSE a.meta,
              data |-> a.data \cup {pair}]

\* train_all() up to its loops: the counters are 0
train_all(n, m) ==
    /\ auto.pc = "idle"
    /\ auto' = [auto EXCEPT !.pc = "training", !.mode = "all",
                            !.symbols = n, !.timeframes = m,
                            !.results = Some([success |-> 0, failed |-> 0, total |-> 0])]
    /\ UNCHANGED <<sched, predVars, ensVars, lstmVars, normVars, weightVars, evalOut,
                   cycleVars, storeVars, procVars, seqVars>>

\* one pass of the inner loop: total is counted, train_model is called, and
\* success or failed is counted
TrainNextPair(fetch, trainer) ==
    /\ auto.pc = "training"
    /\ Len(auto.attempts) < auto.symbols * auto.timeframes
    /\ LET pair    == PairAt(auto.timeframes, Len(auto.attempts) + 1)
           t       == TrainModel_(auto, pair, fetch, trainer)
           results == Val(auto.results)
       IN  auto' = [auto EXCEPT
                      !.results = Some([success |-> results.success
                                                     + (IF t.success THEN 1 ELSE 0),
                                        failed  |-> results.failed
                                                     + (IF t.success THEN 0 ELSE 1),
                                        total   |-> results.total + 1]),
                      !.attempts = Append(@, [pair |-> pair, success |-> t.success,
                                              returncode |-> t.returncode,
                                              model_exists |-> t.model_exists]),
                      !.models = t.models,
                      !.meta = t.meta,
                      !.data = t.data]
    /\ UNCHANGED <<sched, predVars, ensVars, lstmVars, normVars, weightVars, evalOut,
                   cycleVars, storeVars, procVars, seqVars>>

\* after the loops: training_results.json is written and results returned
TrainAllReturns ==
    /\ auto.pc = "training"
    /\ Len(auto.attempts) = auto.symbols * auto.timeframes
    /\ auto' = [auto EXCEPT !.pc = "done"]
    /\ UNCHANGED <<sched, predVars, ensVars, lstmVars, normVars, weightVars, evalOut,
                   cycleVars, storeVars, procVars, seqVars>>

\* python auto_trainer.py --mode retrain (what full_retrain runs): line 252
\* calls trainer.retrain_existing(), but AutoTrainer has no such method.
\* The def of retrain_existing is at line 256, indented inside the
\* 'if __name__' block and after the call, so the call raises
\* AttributeError and the script ends before any metadata file is read.
RetrainMode ==
    /\ auto.pc = "idle"
    /\ auto' = [auto EXCEPT !.pc = "exited", !.mode = "retrain", !.raised = TRUE]
    /\ UNCHANGED <<sched, predVars, ensVars, lstmVars, normVars, weightVars, evalOut,
                   cycleVars, storeVars, procVars, seqVars>>

\* the models directory as earlier runs left it: no model; models trained
\* exactly retrain_interval_hours ago or an hour earlier
EarlierModels ==
    UNION { [ { PairAt(1, k) : k \in 1..n } ->
                { RetrainIntervalHours, RetrainIntervalHours + 1 } ] :
            n \in 0..MaxSymbols }

InitTrainer ==
    /\ exists = FALSE
    /\ file = <<>>
    /\ now = 0
    /\ ret = [op |-> "init", raised |-> FALSE]
    /\ lastWrite = "none"
    /\ pc = IdleProcs
    /\ loc = NoLocals
    /\ log0 = <<>>
    /\ df = NoTable
    /\ seqArgs = NoSeqArgs
    /\ seqOut = NoSeqOut
    /\ scalers = NoScalers
    /\ normOut = NoCall
    /\ feedback = <<>>
    /\ labels = <<>>
    /\ weightOut = NoCall
    /\ evalOut = NoCall
    /\ CycleIdle
    /\ PredictorIdle
    /\ EnsembleIdle
    /\ LstmIdle
    /\ sched = NoCall
    /\ \E meta \in EarlierModels : \E data \in { {}, DOMAIN meta } :
          auto = [NoRun EXCEPT !.models = DOMAIN meta, !.meta = meta, !.data = data]

NextTrainer ==
    \/ \E n \in 1..MaxSymbols, m \in 1..Len(DefaultTimeframes) : train_all(n, m)
    \/ \E fetch \in FetchOutcomes, trainer \in TrainerOutcomes :
          TrainNextPair(fetch, trainer)
    \/ TrainAllReturns
    \/ RetrainMode

SpecTrainer == InitTrainer /\ [][NextTrainer]_vars

----------------------------------------------------------------------------
(* Two processes call the collector on the same signals.jsonl.  The code   *)
(* takes no lock: a call is a sequence of file operations, and the file    *)
(* operations of the two calls interleave.                                 *)

Procs == {1, 2}

\* open(signals_db, 'w'): the file is cut to length 0; the writer is at offset 0
Truncate(f) == <<>>

\* The buffered lines of a rewrite reach the file at offset 0 when it is
\* closed.  What another writer put into the file since the truncation is
\* overwritten from the start: it is covered whole, or its end is left
\* behind, beginning inside a line.
WriteAtStart(old, lines) ==
    IF old = <<>> THEN { lines }
    ELSE { lines } \cup
         { lines \o <<Fragment>> \o SubSeq(old, k, Len(old)) : k \in 2..(Len(old) + 1) }

\* record_signal: one append of one line
RecordCall(p, signal) ==
    /\ pc[p] = "idle"
    /\ LET record == NewRecord(signal, now)
       IN  /\ file' = AppendLine(file, JsonDumps(record))
           /\ exists' = TRUE
           /\ loc' = [loc EXCEPT ![p] = [op |-> "record_signal", raised |-> FALSE,
                                         record |-> record]]
    /\ pc' = [pc EXCEPT ![p] = "done"]
    /\ UNCHANGED <<now, ret, lastWrite, log0, seqVars, learnVars>>

\* update_signal_outcome, line 62: signals = self.load_signals()
UpdateLoad(p, signal_id, u) ==
    /\ pc[p] = "idle"
    /\ LET loaded == LoadSignals(exists, file, None, now)
       IN  /\ loc' = [loc EXCEPT ![p] = [op |-> "update_signal_outcome",
                                         raised |-> loaded.raised,
                                         signal_id |-> signal_id, u |-> u,
                                         signals |-> loaded.signals,
                                         updated |-> FALSE]]
           /\ pc' = [pc EXCEPT ![p] = IF loaded.raised THEN "done" ELSE "loaded"]
    /\ UNCHANGED <<exists, file, now, ret, lastWrite, log0, seqVars, learnVars>>

\* lines 64-77: the loop over the loaded signals, then open(signals_db, 'w')
UpdateOpen(p) ==
    /\ pc[p] = "loaded"
    /\ LET k == FirstMatch(loc[p].signals, loc[p].signal_id)
       IN  IF k # 0
           THEN /\ loc' = [loc EXCEPT ![p].signals =
                              CloseSignal(loc[p].signals, k, loc[p].u, now),
                                      ![p].updated = TRUE]
                /\ file' = Truncate(file)
                /\ exists' = TRUE
                /\ pc' = [pc EXCEPT ![p] = "opened"]
           ELSE /\ UNCHANGED <<loc, file, exists>>
                /\ pc' = [pc EXCEPT ![p] = "done"]
    /\ UNCHANGED <<now, ret, lastWrite, log0, seqVars, learnVars>>

\* lines 78-79 and the close of the file: the lines reach the file
UpdateWrite(p) ==
    /\ pc[p] = "opened"
    /\ file' \in WriteAtStart(file, DumpAll(loc[p].signals))
    /\ pc' = [pc EXCEPT ![p] = "done"]
    /\ UNCHANGED <<exists, loc, now, ret, lastWrite, log0, seqVars, learnVars>>

\* the logs the calls start from: up to MaxLog signals recorded at time 0
StartLogs ==
    SeqsUpTo({ JsonDumps(NewRecord(signal, 0)) : signal \in SignalInputs }, MaxLog)

InitConc ==
    /\ file \in StartLogs
    /\ exists = (file # <<>>)
    /\ log0 = file
    /\ now = 0
    /\ ret = [op |-> "init", raised |-> FALSE]
    /\ lastWrite = "none"
    /\ pc = IdleProcs
    /\ loc = NoLocals
    /\ df = NoTable
    /\ seqArgs = NoSeqArgs
    /\ seqOut = NoSeqOut
    /\ LearnIdle

NextConc ==
    \E p \in Procs :
        \/ \E signal \in SignalInputs : RecordCall(p, signal)
        \/ \E signal_id \in UpdateIds, u \in OutcomeInputs : UpdateLoad(p, signal_id, u)
        \/ UpdateOpen(p)
        \/ UpdateWrite(p)

SpecConc == InitConc /\ [][NextConc]_vars

----------------------------------------------------------------------------
(* One call of update_signal_outcome on a disk that can fail, in a process *)
(* that can be killed.  The method has no try/except and writes the log in *)
(* place: an OSError leaves the method as it is raised, and what reached   *)
(* the file by then stays there.                                           *)

\* what is in the file when the rewrite stops before its last line is out:
\* the first lines, with or without the beginning of the next one
PartialWrites(lines) ==
    { SubSeq(lines, 1, k) : k \in 0..(Len(lines) - 1) } \cup
    { SubSeq(lines, 1, k) \o <<Fragment>> : k \in 0..(Len(lines) - 1) }

\* line 62: load_signals cannot open or read the file (lines 87-91)
UpdateLoadFails(p, signal_id, u) ==
    /\ pc[p] = "idle"
    /\ exists
    /\ loc' = [loc EXCEPT ![p] = [op |-> "update_signal_outcome", raised |-> TRUE,
                                  signal_id |-> signal_id, u |-> u,
                                  signals |-> <<>>, updated |-> FALSE]]
    /\ pc' = [pc EXCEPT ![p] = "read_failed"]
    /\ UNCHANGED <<exists, file, now, ret, lastWrite, log0, seqVars, learnVars>>

\* line 77: open(signals_db, 'w') is refused; the file is not touched
UpdateOpenFails(p) ==
    /\ pc[p] = "loaded"
    /\ FirstMatch(loc[p].signals, loc[p].signal_id) # 0
    /\ loc' = [loc EXCEPT ![p].raised = TRUE]
    /\ pc' = [pc EXCEPT ![p] = "open_failed"]
    /\ UNCHANGED <<exists, file, now, ret, lastWrite, log0, seqVars, learnVars>>

\* lines 78-79: a write fails after the file was cut to length 0
UpdateWriteFails(p) ==
    /\ pc[p] = "opened"
    /\ file' \in PartialWrites(DumpAll(loc[p].signals))
    /\ loc' = [loc EXCEPT ![p].raised = TRUE]
    /\ pc' = [pc EXCEPT ![p] = "write_failed"]
    /\ UNCHANGED <<exists, now, ret, lastWrite, log0, seqVars, learnVars>>

\* the process is killed between line 77 and the close of the file
UpdateKilled(p) ==
    /\ pc[p] = "opened"
    /\ file' \in PartialWrites(DumpAll(loc[p].signals))
    /\ pc' = [pc EXCEPT ![p] = "killed"]
    /\ UNCHANGED <<exists, loc, now, ret, lastWrite, log0, seqVars, learnVars>>

NextFault ==
    \/ \E signal_id \in UpdateIds, u \in OutcomeInputs : UpdateLoad(1, signal_id, u)
    \/ \E signal_id \in UpdateIds, u \in OutcomeInputs : UpdateLoadFails(1, signal_id, u)
    \/ UpdateOpen(1)
    \/ UpdateOpenFails(1)
    \/ UpdateWrite(1)
    \/ UpdateWriteFails(1)
    \/ UpdateKilled(1)

SpecFault == InitConc /\ [][NextFault]_vars

----------------------------------------------------------------------------
(* Properties of the feedback log *)

Rec(f, i) == f[i].rec

KnownId(f, signal_id) ==
    \E i \in 1..Len(f) : Parses(f[i]) /\ Rec(f, i).signal_id = signal_id

\* the outcome fields of a record
OutcomeFields(r) ==
    <<r.status, r.outcome, r.exit_price, r.profit_loss, r.exit_time>>

\* the fields record_signal sets for good
EmittedFields(r) ==
    <<r.signal_id, r.symbol, r.timeframe, r.signal_type, r.timestamp, r.indicators>>

\* C1: a record is closed exactly once and is immutable thereafter: once a
\* record of the log is CLOSED, no later call changes its status, outcome,
\* exit_price, profit_loss or exit_time.
C1_ClosedIsImmutable ==
    [][\A i \in 1..Len(file) :
          Rec(file, i).status = "CLOSED"
          => /\ i <= Len(file')
             /\ OutcomeFields(Rec(file', i)) = OutcomeFields(Rec(file, i))]_vars

\* C2: update_signal_outcome with a signal_id that is not in the log leaves
\* the file as it was, writes nothing and returns without raising.
C2_UnknownIdIsNoOp ==
    [][(ret'.op = "update_signal_outcome" /\ ~KnownId(file, ret'.signal_id))
          => /\ file' = file
             /\ exists' = exists
             /\ lastWrite' = "none"
             /\ ret'.raised = FALSE
             /\ ret'.updated = FALSE]_vars

\* an update with an unknown id has returned, on a log that has records
C2_Witness ==
    /\ ret.op = "update_signal_outcome"
    /\ ~KnownId(file, ret.signal_id)
    /\ ~ret.raised
    /\ Len(file) >= 1
    /\ lastWrite = "none"

\* C3: record_signal appends exactly one ACTIVE record with null outcome,
\* exit_price, profit_loss and exit_time at the end of the log; the records
\* that were in the log stay, unchanged and in place.
C3_RecordAppendsOneActive ==
    [][ret'.op = "record_signal"
          => /\ Len(file') = Len(file) + 1
             /\ SubSeq(file', 1, Len(file)) = file
             /\ Parses(file'[Len(file')])
             /\ LET r == Rec(file', Len(file'))
                IN  /\ OutcomeFields(r) = <<"ACTIVE", None, None, None, None>>
                    /\ r.signal_id = ret'.value]_vars

\* a signal was recorded after a record that is already closed
C3_Witness ==
    /\ ret.op = "record_signal"
    /\ lastWrite = "append"
    /\ Len(file) = 2
    /\ Rec(file, 1).status = "CLOSED"
    /\ Rec(file, 2).status = "ACTIVE"

\* C4: update_signal_outcome on a known id changes only the status, outcome,
\* exit_price, profit_loss and exit_time of the one record it closes; the
\* number and order of the records are kept, every other record is
\* unchanged, and no call ever removes a record.
C4_UpdateChangesOnlyTarget ==
    [][/\ (ret'.op = "update_signal_outcome" /\ KnownId(file, ret'.signal_id))
             => /\ Len(file') = Len(file)
                /\ ret'.updated
                /\ \E k \in 1..Len(file) :
                      /\ Rec(file, k).signal_id = ret'.signal_id
                      /\ EmittedFields(Rec(file', k)) = EmittedFields(Rec(file, k))
                      /\ OutcomeFields(Rec(file', k)) =
                            <<"CLOSED", Some(ret'.u.outcome), Some(ret'.u.exit_price),
                              Some(ret'.u.profit_loss), Some(now)>>
                      /\ \A i \in 1..Len(file) : i # k => file'[i] = file[i]
       /\ Len(file') >= Len(file)
       /\ \A i \in 1..Len(file) :
             EmittedFields(Rec(file', i)) = EmittedFields(Rec(file, i))]_vars

\* of two records with the same signal_id the first was closed and the
\* second is still ACTIVE
C4_Witness ==
    /\ ret.op = "update_signal_outcome"
    /\ ret.updated
    /\ lastWrite = "rewrite"
    /\ Len(file) = 2
    /\ Rec(file, 1).status = "CLOSED"
    /\ Rec(file, 2).status = "ACTIVE"
    /\ Rec(file, 2).signal_id = Rec(file, 1).signal_id

BothDone == \A p \in Procs : pc[p] = "done"

\* the final log has the record with this id closed with this outcome
ClosedWith(f, signal_id, u) ==
    \E i \in 1..Len(f) :
        /\ Parses(f[i])
        /\ Rec(f, i).signal_id = signal_id
        /\ Rec(f, i).status = "CLOSED"
        /\ Rec(f, i).outcome = Some(u.outcome)
        /\ Rec(f, i).profit_loss = Some(u.profit_loss)

\* the signal with this id is in the starting log once, and ACTIVE
ActiveAtStart(signal_id) ==
    /\ Cardinality({ i \in 1..Len(log0) : Rec(log0, i).signal_id = signal_id }) = 1
    /\ \A i \in 1..Len(log0) :
          Rec(log0, i).signal_id = signal_id => Rec(log0, i).status = "ACTIVE"

\* C5: when one process records a signal while another updates the outcome
\* of a different, existing signal, the final log holds the new signal and
\* the applied outcome, in every interleaving.
C5_RecordNotLost ==
    \A p \in Procs, q \in Procs :
        ( /\ BothDone
          /\ loc[p].op = "record_signal"
          /\ loc[q].op = "update_signal_outcome"
          /\ ActiveAtStart(loc[q].signal_id)
          /\ loc[p].record.signal_id # loc[q].signal_id )
        => /\ \E i \in 1..Len(file) : file[i] = JsonDumps(loc[p].record)
           /\ ClosedWith(file, loc[q].signal_id, loc[q].u)

\* C6: when two processes update the outcomes of two different ACTIVE
\* signals, both records are CLOSED with their own outcome in the final
\* log, in every interleaving.
C6_UpdateNotLost ==
    ( /\ BothDone
      /\ loc[1].op = "update_signal_outcome"
      /\ loc[2].op = "update_signal_outcome"
      /\ loc[1].signal_id # loc[2].signal_id
      /\ ActiveAtStart(loc[1].signal_id)
      /\ ActiveAtStart(loc[2].signal_id) )
    => /\ ClosedWith(file, loc[1].signal_id, loc[1].u)
       /\ ClosedWith(file, loc[2].signal_id, loc[2].u)

\* C7: no two records of the log have the same signal_id.
C7_SignalIdUnique ==
    \A i \in 1..Len(file), j \in 1..Len(file) :
        i # j => Rec(file, i).signal_id # Rec(file, j).signal_id

\* the records of the file a get_performance_stats call with these filters
\* looks at
Matching(symbol, timeframe, days) ==
    { i \in 1..Len(file) :
        /\ symbol = None \/ Rec(file, i).symbol = Val(symbol)
        /\ timeframe = None \/ Rec(file, i).timeframe = Val(timeframe)
        /\ days = None \/ Val(days) = 0 \/ now - Rec(file, i).timestamp <= Val(days) }

MatchingClosed(symbol, timeframe, days) ==
    { i \in Matching(symbol, timeframe, days) : Rec(file, i).status = "CLOSED" }

StatsReturned == ret.op = "get_performance_stats"

\* C8: get_performance_stats returns closed_signals = 0 and success_rate = 0
\* and does not raise whenever no CLOSED record passes the filters.
C8_NoClosedGivesZero ==
    ( /\ StatsReturned
      /\ MatchingClosed(ret.symbol, ret.timeframe, ret.days) = {} )
    => /\ ~ret.raised
       /\ ret.value.closed_signals = 0
       /\ ret.value.success_rate.num = 0
       /\ ret.value.total_signals =
             Cardinality(Matching(ret.symbol, ret.timeframe, ret.days))

\* the statistics of a log that holds records, all of them ACTIVE
C8_Witness ==
    /\ StatsReturned
    /\ Len(file) = 2
    /\ \A i \in 1..Len(file) : Rec(file, i).status = "ACTIVE"
    /\ ret.value.total_signals = 2
    /\ ret.value.closed_signals = 0

\* C9: with at least one CLOSED record in the filter, total_signals =
\* active_signals + closed_signals, successful + failed = closed_signals,
\* successful counts the SUCCESS and TOOK_PROFIT records, failed the FAILURE
\* and STOPPED_OUT records, and success_rate = 100 * successful / closed.
C9_StatsPartition ==
    ( /\ StatsReturned
      /\ MatchingClosed(ret.symbol, ret.timeframe, ret.days) # {} )
    => LET all    == Matching(ret.symbol, ret.timeframe, ret.days)
           closed == MatchingClosed(ret.symbol, ret.timeframe, ret.days)
           wins   == { i \in closed :
                         Rec(file, i).outcome \in { Some("SUCCESS"), Some("TOOK_PROFIT") } }
           losses == { i \in closed :
                         Rec(file, i).outcome \in { Some("FAILURE"), Some("STOPPED_OUT") } }
           v      == ret.value
       IN  /\ ~ret.raised
           /\ v.total_signals = Cardinality(all)
           /\ v.closed_signals = Cardinality(closed)
           /\ v.total_signals = v.active_signals + v.closed_signals
           /\ v.successful + v.failed = v.closed_signals
           /\ v.successful = Cardinality(wins)
           /\ v.failed = Cardinality(losses)
           /\ v.success_rate.num * v.closed_signals
                 = 100 * v.successful * v.success_rate.den

\* the statistics of a log with a TOOK_PROFIT and a STOPPED_OUT record
C9_Witness ==
    /\ StatsReturned
    /\ ret.value.closed_signals = 2
    /\ Rec(file, 1).outcome = Some("TOOK_PROFIT")
    /\ Rec(file, 2).outcome = Some("STOPPED_OUT")
    /\ ret.value.success_rate = [num |-> 50, den |-> 1]

----------------------------------------------------------------------------
(* Properties of create_sequences *)

\* the rows of df that create_sequences keeps
CleanRows == SelectSeq(df.rows, LAMBDA row : row["close"] # NaN)

HasClose == \E i \in 1..Len(df.columns) : df.columns[i] = "close"

\* C10: every label is 0, 1 or 2; it is HOLD (1) if the current close is
\* <= 0, else SELL (0) if the change to the future close is below -1%,
\* BUY (2) if it is above +1%, and HOLD (1) otherwise, so that a change of
\* exactly +1% or -1% is HOLD.
C10_LabelThresholds ==
    seqOut.status = "ok"
    => \A i \in 1..Len(seqOut.y) :
          /\ seqOut.y[i] \in {0, 1, 2}
          /\ HasClose =>
               LET current == Val(CleanRows[i + seqArgs.sequence_length - 1]["close"])
                   future  == Val(CleanRows[i + seqArgs.sequence_length
                                              + seqArgs.prediction_horizon - 1]["close"])
                   change  == future - current
               IN  /\ current <= 0 => seqOut.y[i] = 1
                   /\ current > 0 =>
                        /\ (seqOut.y[i] = 0) = (100 * change < -current)
                        /\ (seqOut.y[i] = 2) = (100 * change > current)
                        /\ (100 * change = current \/ 100 * change = -current)
                              => seqOut.y[i] = 1

\* labels at the thresholds: 100.00 -> 101.00 is HOLD, 101.00 -> 98.99 is SELL
C10_Witness ==
    /\ seqOut.status = "ok"
    /\ HasClose
    /\ seqArgs = [sequence_length |-> 1, prediction_horizon |-> 1]
    /\ CleanRows = << [close |-> Some(10000)], [close |-> Some(10100)],
                      [close |-> Some(9899)] >>
    /\ seqOut.y = <<1, 0>>

\* the rows of df without NaN in a feature column
CleanTable ==
    SelectSeq(df.rows, LAMBDA row : \A c \in DOMAIN row : row[c] # NaN)

\* C11: when fewer than sequence_length + prediction_horizon rows are left
\* after the rows with undefined values are dropped, create_sequences raises,
\* returns no X and no y, and leaves the recorded feature-column ordering as
\* it was before the call.
C11_InsufficientDataRaises ==
    [][ (seqOut'.status # "not_called"
         /\ Len(CleanTable) < seqArgs.sequence_length + seqArgs.prediction_horizon)
        => /\ seqOut'.status = "raised"
           /\ DOMAIN seqOut' = {"status", "feature_columns"}
           /\ seqOut'.feature_columns = seqOut.feature_columns ]_vars

\* the call raised on a table one row short, with NaN rows dropped, and an
\* ordering recorded by an earlier call is still there
C11_Witness ==
    /\ seqOut.status = "raised"
    /\ Len(df.rows) = 3
    /\ Len(CleanTable) = 2
    /\ seqArgs = [sequence_length |-> 2, prediction_horizon |-> 1]
    /\ seqOut.feature_columns = <<"open", "close">>

\* C12: from N cleaned rows, N >= sequence_length + prediction_horizon,
\* create_sequences returns N - sequence_length - prediction_horizon + 1
\* sequences and as many labels; sequence i is rows i .. i+sequence_length-1
\* and label i compares the close of row i+sequence_length-1 with the close
\* of row i+sequence_length+prediction_horizon-1, a row of the table.
\* (Rows are counted from 1 here, from 0 in the code.)
C12_SequenceCountAndWindows ==
    seqOut.status = "ok"
    => LET N == Len(CleanTable)
           L == seqArgs.sequence_length
           H == seqArgs.prediction_horizon
       IN  /\ N >= L + H
           /\ Len(seqOut.X) = N - L - H + 1
           /\ Len(seqOut.y) = N - L - H + 1
           /\ \A i \in 1..Len(seqOut.X) :
                 /\ seqOut.X[i] = [k \in 1..L |-> CleanTable[i + k - 1]]
                 /\ i + L + H - 1 \in 1..N
                 /\ HasClose =>
                       seqOut.y[i] = Label(Val(CleanTable[i + L - 1]["close"]),
                                          Val(CleanTable[i + L + H - 1]["close"]))

\* three cleaned rows, windows of two rows, horizon one: one sequence, whose
\* label compares row 2 with row 3 (+1.01%, BUY)
C12_Witness ==
    /\ seqOut.status = "ok"
    /\ HasClose
    /\ seqArgs = [sequence_length |-> 2, prediction_horizon |-> 1]
    /\ CleanTable = << [close |-> Some(9900)], [close |-> Some(10000)],
                       [close |-> Some(10101)] >>
    /\ Len(seqOut.X) = 1
    /\ seqOut.y = <<2>>

----------------------------------------------------------------------------
(* Properties of normalize_features *)

\* C13: normalize_features(X, fit=False) on a processor that was never
\* fitted fails with a not-fitted error and stores no scaling parameters.
C13_TransformBeforeFitFails ==
    (normOut.status # "not_called" /\ ~normOut.fit /\ ~normOut.fitted_before)
    => /\ normOut.status = "raised"
       /\ scalers = NoScalers

\* C14: after a fit, one (min, max) per feature is used at every window
\* position, so equal raw values of a feature are mapped to equal
\* normalized values wherever they stand in the window.
C14_OneScalingPerFeature ==
    (normOut.status = "returned" /\ normOut.fit)
    => \A i \in 1..NumFeatures :
          /\ \A t1, t2 \in 1..WindowLen : scalers[i][t1] = scalers[i][t2]
          /\ \A s1, s2 \in 1..NumSamples, t1, t2 \in 1..WindowLen :
                normOut.raw[s1][t1][i] = normOut.raw[s2][t2][i]
                => normOut.X[s1][t1][i] = normOut.X[s2][t2][i]

----------------------------------------------------------------------------
(* Properties of calculate_sample_weights *)

\* C15: the weight vector has one weight per sample and its mean is 1: the
\* weights sum to the number of samples.
C15_WeightsMeanOne ==
    weightOut.status = "returned"
    => /\ Len(weightOut.weights) = Len(labels)
       /\ FracSum(weightOut.weights) = Frac(Len(labels), 1)

\* three samples of three classes, feedback that lowers SELL and raises BUY
C15_Witness ==
    /\ weightOut.status = "returned"
    /\ labels = <<0, 1, 2>>
    /\ feedback = << FeedbackRow("SELL", -50, 0), FeedbackRow("BUY", 200, 0) >>
    /\ weightOut.weights[1] # weightOut.weights[2]

\* the rows of the feedback table of one class
ClassRows(c) == SelectSeq(feedback, LAMBDA row : row.signal_type = LabelNames[c])

\* C16: the multiplier of a class is clamp(1 + 0.3 * mean weighted reward,
\* 0.5, 1.5); it lies in [0.5, 1.5], it is 1 for a class without feedback
\* records, and each weight is the time decay of its sample times the
\* multiplier of its own class, up to the common factor of the final
\* normalisation.  With S the sum of the profit_loss of the k records of the
\* class, 1 + 0.3 * (S / 100) / k = (1000 k + 3 S) / (1000 k).
C16_ClassMultiplier ==
    weightOut.status = "returned"
    => /\ \A c \in 1..3 :
            LET k == Len(ClassRows(c))
                S == SumProfitLossOf(ClassRows(c))
                m == weightOut.weight_mult[c]
            IN  /\ 2 * m.num >= m.den
                /\ 2 * m.num <= 3 * m.den
                /\ k = 0 => m = [num |-> 1, den |-> 1]
                /\ k > 0 =>
                      IF 2 * (1000 * k + 3 * S) <= 1000 * k
                      THEN 2 * m.num = m.den
                      ELSE IF 2 * (1000 * k + 3 * S) >= 3 * 1000 * k
                      THEN 2 * m.num = 3 * m.den
                      ELSE m.num * 1000 * k = (1000 * k + 3 * S) * m.den
       /\ \A i, j \in 1..Len(labels) :
            LET n  == Len(labels)
                di == Frac(4 * (n - 1) + (i - 1), 5 * (n - 1))
                dj == Frac(4 * (n - 1) + (j - 1), 5 * (n - 1))
                mi == weightOut.weight_mult[labels[i] + 1]
                mj == weightOut.weight_mult[labels[j] + 1]
                wi == weightOut.weights[i]
                wj == weightOut.weights[j]
            IN  n > 1 =>
                  FracMul(wi, FracMul(dj, mj)) = FracMul(wj, FracMul(di, mi))

\* SELL is clamped to 0.5 (-200%), BUY to 1.5 (+200%), HOLD has no feedback
C16_Witness ==
    /\ weightOut.status = "returned"
    /\ labels = <<0, 1, 2>>
    /\ feedback = << FeedbackRow("SELL", -200, 0), FeedbackRow("BUY", 200, 0) >>
    /\ weightOut.weight_mult = << [num |-> 1, den |-> 2], [num |-> 1, den |-> 1],
                                  [num |-> 3, den |-> 2] >>

----------------------------------------------------------------------------
(* Properties of evaluate_improvement *)

\* the rows with fewer than n earlier rows
OldestRows(n) ==
    SelectSeq(feedback, LAMBDA r :
        Cardinality({ k \in 1..Len(feedback) :
                        feedback[k].timestamp < r.timestamp }) < n)

NewestRows(n) ==
    SelectSeq(feedback, LAMBDA r :
        Cardinality({ k \in 1..Len(feedback) :
                        feedback[k].timestamp > r.timestamp }) < n)

Wins(rows) == Len(SelectSeq(rows, LAMBDA r : r.profit_loss > 0))

\* C19: with fewer than 10 closed feedback records the status is
\* insufficient_data; otherwise the floor(n/2) oldest records are the early
\* half, the other n - floor(n/2) the recent half, and is_improving is true
\* iff the success rate or the mean return of the recent half is strictly
\* greater than that of the early half.
C19_EvaluateImprovement ==
    evalOut.status # "not_called"
    => LET n      == Len(feedback)
           early  == OldestRows(n \div 2)
           recent == NewestRows(n - (n \div 2))
       IN  /\ n < 10 => evalOut.status = "insufficient_data"
           /\ n >= 10 =>
                 /\ evalOut.status = "evaluated"
                 /\ evalOut.early.count = n \div 2
                 /\ evalOut.recent.count = n - (n \div 2)
                 /\ evalOut.early.avg_return.num * Len(early)
                       = SumProfitLossOf(early) * evalOut.early.avg_return.den
                 /\ evalOut.recent.avg_return.num * Len(recent)
                       = SumProfitLossOf(recent) * evalOut.recent.avg_return.den
                 /\ evalOut.is_improving
                       = (\/ Wins(recent) * Len(early) > Wins(early) * Len(recent)
                          \/ SumProfitLossOf(recent) * Len(early)
                                > SumProfitLossOf(early) * Len(recent))

\* eleven records, newest first in the log: the five oldest are the early
\* half; the recent half wins less often but returns more on average
C19_Witness ==
    /\ evalOut.status = "evaluated"
    /\ Len(feedback) = 11
    /\ feedback[1].timestamp = 11
    /\ evalOut.early.count = 5
    /\ evalOut.recent.count = 6
    /\ evalOut.improvement.success_rate_delta.num < 0
    /\ evalOut.improvement.avg_return_delta.num > 0
    /\ evalOut.is_improving

----------------------------------------------------------------------------
(* Properties of the learning cycle *)

\* the CLOSED records of the log with a profit_loss, for the cycle's symbol
\* and timeframe
ClosedWithProfitLoss ==
    { i \in 1..Len(file) :
        /\ Parses(file[i])
        /\ Rec(file, i).symbol = "BTCUSDT"
        /\ Rec(file, i).timeframe = "1h"
        /\ Rec(file, i).status = "CLOSED"
        /\ Rec(file, i).profit_loss # None }

\* C17: sample weights are computed only when the log holds at least 5
\* CLOSED records with a profit_loss for the symbol and timeframe; with
\* fewer, train is called with sample_weight = None and the metadata says
\* used_feedback_weights = false and feedback_samples = 0.
C17_WeightsNeedFiveRecords ==
    /\ cycle.sample_weights # None => Cardinality(ClosedWithProfitLoss) >= 5
    /\ Cardinality(ClosedWithProfitLoss) < 5 =>
          /\ cycle.train # None => Val(cycle.train).sample_weight = None
          /\ cycle.pc = "done" =>
                /\ Val(metaFile).used_feedback_weights = FALSE
                /\ Val(metaFile).feedback_samples = 0

\* a cycle that ran to its end on a log with four such records
C17_Witness ==
    /\ cycle.pc = "done"
    /\ Cardinality(ClosedWithProfitLoss) = 4
    /\ Len(file) = 5
    /\ Val(cycle.train).sample_weight = None
    /\ Val(metaFile).feedback_samples = 0

CycleOrder ==
    << "load_data", "prepare_training_data", "get_feedback_data",
       "sample_weights", "train", "save_models", "write_metadata" >>

\* C20: the steps of a cycle run in the order load data, features and
\* labels, feedback, weights, train, save model, write metadata; the model
\* file is written only after train returned and the metadata only after
\* the model file, so a cycle whose train failed has written neither.
C20_CycleOrder ==
    /\ Len(cycle.steps) <= Len(CycleOrder)
    /\ cycle.steps = SubSeq(CycleOrder, 1, Len(cycle.steps))
    /\ modelFile = Some("this_run") =>
          cycle.train # None /\ Val(cycle.train).outcome = "returned"
    /\ (metaFile # None /\ Val(metaFile).trained_at = now) =>
          modelFile = Some("this_run")
    /\ (cycle.train # None /\ Val(cycle.train).outcome = "raised") =>
          /\ cycle.pc = "failed"
          /\ modelFile # Some("this_run")
          /\ metaFile \in { None, Some(EarlierMetadata) }

\* train raised in a cycle over an earlier model: model and metadata of the
\* earlier cycle are still on disk
C20_Witness ==
    /\ cycle.pc = "failed"
    /\ cycle.steps = SubSeq(CycleOrder, 1, 5)
    /\ Val(cycle.train).outcome = "raised"
    /\ modelFile = Some("earlier_run")
    /\ metaFile = Some(EarlierMetadata)

----------------------------------------------------------------------------
(* Properties of the ensemble *)

\* C21: the ensemble goes UNBUILT -> BUILT -> TRAINED.  predict on an
\* ensemble that is not TRAINED fails with the not-trained error and
\* returns no prediction; train is refused when UNBUILT; and the ensemble
\* becomes TRAINED only by a train that returned, from BUILT, or by loading
\* the blob of a trained ensemble.
C21_EnsembleStateMachine ==
    [][ /\ (predOut'.op = "predict" /\ predictor.state # "TRAINED")
            => /\ predOut'.raised
               /\ predOut'.error = "NotTrainedError"
               /\ "pred" \notin DOMAIN predOut'
        /\ (predOut'.op = "train" /\ predictor.state = "UNBUILT")
            => predOut'.raised /\ predictor'.state = "UNBUILT"
        /\ (predictor'.state = "TRAINED" /\ predictor.state # "TRAINED")
            => \/ predOut'.op = "train" /\ ~predOut'.raised
                    /\ predictor.state = "BUILT"
               \/ predOut'.op = "load_models" /\ artifact = Some("TRAINED") ]_vars

\* predict was refused on an ensemble that was built but never trained
C21_Witness ==
    /\ predOut.op = "predict"
    /\ predOut.raised
    /\ predOut.before = "BUILT"
    /\ predictor.state = "BUILT"

\* the votes of the members, taken in another order
Reordered(votes, p) == [m \in DOMAIN votes |-> votes[p[m]]]

C23_SoftVoteUnweightedMean ==
    (ensOut.op = "predict_ensemble" /\ ~ensOut.raised)
    => /\ ensOut.ensemble_pred = AveragedPredictions(ens.models)
       /\ Confidence(ensOut.ensemble_pred)
            = Confidence(AveragedPredictions(ens.models))

----------------------------------------------------------------------------
(* Properties of the feedback log on a failing disk *)

\* C24: an I/O error while update_signal_outcome reads or rewrites the log
\* is caught: the call ends without an exception reaching its caller.
C24_IoErrorCaught ==
    (loc[1].op = "update_signal_outcome"
        /\ pc[1] \in {"read_failed", "open_failed", "write_failed"})
    => ~loc[1].raised

\* C29: when update_signal_outcome is interrupted while it rewrites the
\* file, by a failed write or by the death of the process, the file holds
\* the complete old log or the complete new one.
C29_RewriteAllOrNothing ==
    pc[1] \in {"write_failed", "killed"}
    => \/ file = log0
       \/ file = DumpAll(loc[1].signals)

----------------------------------------------------------------------------
(* Properties of LSTMPricePredictor *)

GuardedMethods == { "train", "predict", "evaluate", "save_model" }

\* C25: train, predict, evaluate and save_model raise ValueError whenever
\* self.model is None and leave model and history as they were; once
\* build_model or load_model has set the model, none of them raises that
\* ValueError.
C25_LstmGuards ==
    lstmOut.op \in GuardedMethods
    => /\ lstmOut.before.model = None
            => /\ lstmOut.raised
               /\ lstmOut.error = "ValueError"
               /\ lstm = lstmOut.before
       /\ lstmOut.before.model # None => lstmOut.error # "ValueError"
       /\ lstmOut.raised => lstm = lstmOut.before

\* save_model was refused on a new predictor, which is still empty
C25_Witness ==
    /\ lstmOut.op = "save_model"
    /\ lstmOut.raised
    /\ lstmOut.error = "ValueError"
    /\ lstm = [model |-> None, history |-> None, file |-> None]

----------------------------------------------------------------------------
(* Properties of the scheduler *)

\* the closed signals of a symbol recorded in the last seven days
RecentClosed(symbol) ==
    { i \in 1..Len(file) :
        /\ Rec(file, i).symbol = symbol
        /\ Rec(file, i).status = "CLOSED"
        /\ now - Rec(file, i).timestamp <= StatsDays }

RecentWins(symbol) ==
    { i \in RecentClosed(symbol) :
        Rec(file, i).outcome \in { Some("SUCCESS"), Some("TOOK_PROFIT") } }

\* C26: evaluate_performance runs the retraining of a symbol exactly when
\* the symbol has at least min_feedback_samples closed signals in the last
\* seven days, auto_retrain_on_poor_performance is on and the success rate
\* is strictly below poor_performance_threshold; with too few closed
\* signals the symbol is skipped; and every symbol is evaluated, whatever
\* the retraining of an earlier one did.
C26_RetrainWhenPoor ==
    sched.status = "called"
    => /\ Len(sched.evaluated) = Len(ScheduledSymbols)
       /\ \A i \in 1..Len(ScheduledSymbols) :
             LET symbol == ScheduledSymbols[i]
                 e      == sched.evaluated[i]
                 closed == Cardinality(RecentClosed(symbol))
                 wins   == Cardinality(RecentWins(symbol))
                 enough == closed >= sched.config.min_feedback_samples
                 poor   == wins * 100 < sched.config.poor_performance_threshold * closed
             IN  /\ e.symbol = symbol
                 /\ e.action = "retrain"
                      <=> /\ enough
                          /\ sched.config.auto_retrain_on_poor_performance
                          /\ poor
                 /\ ~enough <=> e.action = "skipped"
                 /\ e.action = "retrain" => e.run = sched.outcomes[i]

\* the retraining of the first symbol timed out and the second symbol was
\* retrained all the same
C26_Witness ==
    /\ sched.status = "called"
    /\ Len(sched.evaluated) = 2
    /\ sched.evaluated[1].action = "retrain"
    /\ sched.evaluated[1].run = "TimeoutExpired"
    /\ sched.evaluated[2].action = "retrain"

----------------------------------------------------------------------------
(* Properties of auto_trainer.py *)

\* the pairs whose metadata is older than max_age_hours
StaleModels(meta, max_age_hours) ==
    { pair \in DOMAIN meta : meta[pair] > max_age_hours }

\* C27: a run in 'retrain' mode ends normally, having retrained every model
\* whose trained_at is older than max_age_hours (by default
\* retrain_interval_hours), so that no metadata older than that is left by
\* a run whose trainings succeed.
C27_RetrainModeRetrainsStale ==
    (auto.mode = "retrain" /\ auto.pc = "exited")
    => /\ ~auto.raised
       /\ auto.results # None
       /\ StaleModels(auto.meta, RetrainIntervalHours) = {}
       /\ LET results == Val(auto.results)
          IN  results.retrained + results.skipped + results.failed
                = Cardinality(DOMAIN auto.meta)

\* C30: train_all attempts the configured pairs in order, each once; after
\* every attempt success + failed = total; at the end total is the number
\* of symbols times the number of timeframes; and an attempt counts as a
\* success only if the trainer exited with 0 and the model file exists.
C30_TrainAllCounts ==
    auto.mode = "all"
    => LET results == Val(auto.results)
           wins == { k \in 1..Len(auto.attempts) : auto.attempts[k].success }
       IN  /\ results.success + results.failed = results.total
           /\ results.total = Len(auto.attempts)
           /\ results.success = Cardinality(wins)
           /\ \A k \in 1..Len(auto.attempts) :
                 /\ auto.attempts[k].pair = PairAt(auto.timeframes, k)
                 /\ \A j \in 1..(k - 1) : auto.attempts[j].pair # auto.attempts[k].pair
                 /\ auto.attempts[k].success
                      => /\ auto.attempts[k].returncode = Some(0)
                         /\ auto.attempts[k].model_exists
           /\ auto.pc = "done"
                => results.total = auto.symbols * auto.timeframes

\* train_all has returned after a failed pair followed by a successful one
C30_Witness ==
    /\ auto.mode = "all"
    /\ auto.pc = "done"
    /\ Len(auto.attempts) >= 2
    /\ ~auto.attempts[1].success
    /\ auto.attempts[2].success
    /\ Val(auto.results).failed >= 1

----------------------------------------------------------------------------
(* The life of a record *)

OutcomeValues == { "SUCCESS", "FAILURE", "STOPPED_OUT", "TOOK_PROFIT" }

\* a record is ACTIVE with no outcome field set, or CLOSED with an outcome
WellFormedStatus(r) ==
    /\ r.status \in { "ACTIVE", "CLOSED" }
    /\ r.status = "ACTIVE"
         <=> /\ r.outcome = None
             /\ r.exit_price = None
             /\ r.profit_loss = None
             /\ r.exit_time = None
    /\ r.status = "CLOSED"
         <=> \E o \in OutcomeValues : r.outcome = Some(o)

\* C28: every record of the log is ACTIVE or CLOSED; it is ACTIVE exactly
\* when outcome, exit_price, profit_loss and exit_time are all null and
\* CLOSED exactly when its outcome is one of the four values; and no call
\* turns a CLOSED record back to ACTIVE.
C28_StatusLifecycle ==
    /\ [](\A i \in 1..Len(file) : WellFormedStatus(Rec(file, i)))
    /\ [][\A i \in 1..Len(file) :
             Rec(file, i).status = "CLOSED"
             => /\ i <= Len(file')
                /\ Rec(file', i).status = "CLOSED"]_vars

\* a log with a record that was closed and a later one that is still open
C28_Witness ==
    /\ Len(file) = 2
    /\ Rec(file, 1).status = "CLOSED"
    /\ Rec(file, 1).outcome = Some("TOOK_PROFIT")
    /\ Rec(file, 2).status = "ACTIVE"
    /\ ret.op = "update_signal_outcome"

====
